---- MODULE Spec2Model ----
(***************************************************************************)
(* Message dispatch engine of the minotaur game server: the dispatcher     *)
(* registry (UseShunt / ReleaseShunt), message routing (pushMessage),      *)
(* per-message execution (dispatchMessage) with its async pool tasks,      *)
(* shutdown, and the connection write loop.                                *)
(*                                                                         *)
(* The server part follows src/unnamed/part_002 (package server, the       *)
(* Server with UseShunt); the connection part follows src/server/conn.go.  *)
(* The dispatcher type itself (put / start / close / unique / antiUnique / *)
(* transfer) has no source under src/ and is modelled from section 4.B of  *)
(* the specification.                                                      *)
(***************************************************************************)
EXTENDS Integers, Sequences, FiniteSets, TLC

\* ------------------------------------------------------------------ bounds
\* calls made by the environment: PushXxx by external producers (the callbacks
\* the pool tasks push come on top), UseShunt, ReleaseShunt
MaxCalls == 3
\* Write calls on the connection of the write-loop specification
MaxWrites == 3
\* Close calls made on a connection
MaxCloses == 2
\* messages pushed to the server of server.go, and Shutdown() calls made on it
MaxPushes == 3
MaxSignals == 2
\* Write calls on the two connections of the Reuse specification
MaxReuseWrites == 3
MaxBootPushes == 2
MaxWatched == 2
MaxDuration == 3
MaxFrames == 2
MaxData == 3
MaxHits == 2
MaxRotations == 3
MaxMutexWrites == 2
MaxMutexCloses == 1
MaxAsync == 2

Conns == {"c1", "c2"}
NilConn == "nil"
ShuntNames == {"system", "A", "B"}
Keys == {"k"}
NoName == ""

\* a nil *dispatcher
Nil == 0
serverSystemDispatcher == "system"

\* ------------------------------------------------------------ message kinds
ShuntKinds ==
    {"Packet", "ShuntTicker", "ShuntAsync", "ShuntAsyncCallback",
     "UniqueShuntAsync", "UniqueShuntAsyncCallback", "Shunt"}
SystemKinds ==
    {"System", "Async", "UniqueAsync", "AsyncCallback", "UniqueAsyncCallback", "Ticker"}
AsyncKinds == {"Async", "UniqueAsync", "ShuntAsync", "UniqueShuntAsync"}
UniqueKinds == {"UniqueShuntAsync", "UniqueAsync"}
UniqueCallbackKinds == {"UniqueAsyncCallback", "UniqueShuntAsyncCallback"}

VARIABLES
    systemDispatcher,   \* srv.systemDispatcher: Nil before onMessageSystemInit
    disps,              \* every dispatcher object created so far, by identity
    dispatchers,        \* srv.dispatchers: name -> dispatcher
    dispatcherMember,   \* srv.dispatcherMember: name -> set of connection ids
    currDispatcher,     \* srv.currDispatcher: connection id -> dispatcher
    messageCounter,     \* srv.messageCounter
    closed,             \* srv.closed
    ants,               \* srv.ants is usable (not released)
    pool,               \* tasks submitted to the async pool and not finished
    pusher,             \* an external producer inside pushMessage
    shut,               \* position of the goroutine running shutdown
    crashed,            \* a panic escaped a goroutine: the process is gone
    events,             \* ShuntChannelCreated / ShuntChannelClosed, OnStop emitted
    nMsgs, nOps,        \* calls made so far (bounded)
    execBy,             \* history: dispatcher whose worker began the message
    putOn,              \* history: dispatcher pushMessage enqueued the message on
    uniqOn,             \* history: dispatcher on which unique(key) set the key
    antiOn,             \* history: dispatchers antiUnique was called on, per message
    over,               \* history: messages whose counter decrement has run
    migr,               \* history: dispatchers each connection has been bound to
    putEp,              \* history: how many bindings the connection had had at the put
    msgs,               \* history: every message record acquired, by id
    rel,                \* history: messagePool.Release calls, per message record
    wl,                 \* the connection of the write-loop specification
    old,                \* the server of src/server/server.go
    rc,                 \* two connections, for Conn.Reuse
    oa,                 \* the server of src/server/server.go with its async pool
    boot,               \* the goroutines of Run while the server starts
    wd,                 \* a dispatcher with the deadlock watchdog, and its clock
    gf,                 \* the gateway connection and the frames it forwarded
    ms,                 \* srv.runtime: the message statistics ring
    mx,                 \* two connections with their mutexes and write loops
    v2,                 \* the v2 server: async messages and the queue's wait-counters
    lk                  \* srv.dispatcherLock and the goroutines that take it

srvVars == <<systemDispatcher, disps, dispatchers, dispatcherMember, currDispatcher,
             messageCounter, closed, ants, pool, pusher, shut, crashed, events,
             nMsgs, nOps, execBy, putOn, uniqOn, antiOn, over, migr, putEp, msgs, rel>>
extVars == <<ms, mx, v2, lk>>
auxVars == <<oa, boot, wd, gf, extVars>>
coreVars == <<srvVars, wl, old, rc, oa, boot, wd, gf>>
vars == <<srvVars, wl, old, rc, auxVars>>

\* ids of messages: external pushes 1..MaxCalls, the callback of i is i + MaxCalls
MsgIds == 1..(2 * MaxCalls)
CallbackId(id) == id + MaxCalls
OriginId(id) == IF id > MaxCalls THEN id - MaxCalls ELSE id

DispIds == 1..Len(disps)

\* generateDispatcher(size, name, handler)
generateDispatcher(name) ==
    [name |-> name, buf |-> <<>>, closed |-> FALSE, uniques |-> {},
     busy |-> FALSE, cur |-> {}, hist |-> <<>>]

\* ---------------------------------------------------------------- dispatcher
\* dispatcher.put: enqueue; a closed dispatcher drops the message
put(ds, d, m) ==
    IF ds[d].closed THEN ds
    ELSE [ds EXCEPT ![d].buf = Append(@, m), ![d].hist = Append(@, m.id)]

\* dispatcher.unique: test-and-set, TRUE iff the key was already present
unique(ds, d, key) == key \in ds[d].uniques
uniqueSet(ds, d, key) == [ds EXCEPT ![d].uniques = @ \cup {key}]

\* dispatcher.antiUnique
antiUnique(ds, d, key) == [ds EXCEPT ![d].uniques = @ \ {key}]

\* dispatcher.close
close(ds, d) == [ds EXCEPT ![d].closed = TRUE]

\* dispatcher.transfer: the queued items go to the target, in order
transfer(ds, d, target) ==
    IF d = target THEN ds
    ELSE [ds EXCEPT ![target].buf = @ \o ds[d].buf,
                    ![target].hist = @ \o [i \in 1..Len(ds[d].buf) |-> ds[d].buf[i].id],
                    ![d].buf = <<>>]

\* ---------------------------------------------------------------- connection
\* A connection is the record wl:
\*   pool    slf.packetPool is not nil
\*   free    connPacket records released into the pool
\*   recs    every connPacket allocated, by identity: its packet and callback
\*   arrs    every backing array allocated for slf.packets, by identity
\*   packets slf.packets: backing array (Nil: a nil slice) and length
\*   pc, batch, i   writeLoop: its position, its local packets, its index
\*   sent    packets handed to the transport, called: callbacks called
\*   n       Write calls made so far (bounded)
\*   handle  the transport handle (ws, gn or kcp) is open
\*   failed  a transport write of the write loop returned an error
\*   closes  Close calls made so far (bounded)
\*   reqs    packets written with a callback on a connection open at the call
\*   dropped packets written on a connection after its Close
\*   gwClosed  Close was called on the gateway connection that forwards to wl
NoPacket == 0
NilSlice == [a |-> Nil, len |-> 0]

\* the reset hook of the packet pool
resetPacket == [packet |-> NoPacket, cb |-> FALSE]

\* the connection when its constructor returns: writeLoop has created the pool
\* and stands at the top of its loop
ConnInit ==
    [pool |-> TRUE, free |-> {}, recs |-> <<>>, arrs |-> <<>>, packets |-> NilSlice,
     pc |-> "top", batch |-> NilSlice, i |-> 0, sent |-> <<>>, called |-> <<>>, n |-> 0,
     handle |-> TRUE, failed |-> FALSE, closes |-> 0, reqs |-> {}, dropped |-> {},
     gwClosed |-> FALSE]

cap(c, sl) == IF sl.a = Nil THEN 0 ELSE Len(c.arrs[sl.a])

\* the capacity append gives a slice of capacity n that is full
growCap(n) == IF n = 0 THEN 1 ELSE 2 * n

\* append(slf.packets, r): in place when the capacity allows it, otherwise into
\* a new backing array that receives a copy of the elements
appendPacket(c, r) ==
    LET sl == c.packets
    IN IF sl.len < cap(c, sl)
       THEN [c EXCEPT !.arrs[sl.a][sl.len + 1] = r, !.packets.len = sl.len + 1]
       ELSE LET new == [k \in 1..growCap(cap(c, sl)) |->
                           IF k <= sl.len THEN c.arrs[sl.a][k]
                           ELSE IF k = sl.len + 1 THEN r ELSE Nil]
            IN [c EXCEPT !.arrs = Append(@, new),
                         !.packets = [a |-> Len(c.arrs) + 1, len |-> sl.len + 1]]

\* packetPool.Get: a released record if there is one, a new one otherwise
poolGet(c) == IF c.free # {} THEN c.free ELSE {Len(c.recs) + 1}

\* Conn.Close: the transport handle is closed, the pool and the batch are dropped
connClose(c) == [c EXCEPT !.handle = FALSE, !.pool = FALSE, !.packets = NilSlice]

\* ------------------------------------------------- the server of server.go
\* The server of src/server/server.go is the record old:
\*   counter     slf.messageCounter
\*   isShutdown  slf.isShutdown
\*   inMap       slf.dispatchers holds the system dispatcher Run started
\*   spare       slf.dispatchers holds a system dispatcher that pushMessage
\*               created after the teardown (useDispatcher), which nobody starts
\*   buf, cur, w the system dispatcher: its queue, the message its worker
\*               executes, the worker's position
\*   r           the position of the goroutine in Run
\*   sig         signals pending in slf.systemSignal (capacity 1)
\*   ch, chClosed  slf.closeChannel: signals pending (capacity 1), closed by Run
\*   onStop, closes, sends, errs   OnStopEvent calls, dispatcher.close calls on
\*               the started dispatcher, sends on closeChannel, OnMessageError calls
\*   pushes, kills   pushMessage and Shutdown() calls made so far (bounded)
OldMessage(t, act, err) == [t |-> t, act |-> act, err |-> err]
NoOldMessage == OldMessage("", "None", FALSE)

\* PushSystemMessage(handler), PushErrorMessage(err, errAction): err is not nil
OldInputs ==
    {OldMessage("System", "None", FALSE)}
        \cup {OldMessage("Error", a, e) : a \in {"None", "Shutdown"}, e \in BOOLEAN}

\* Run has created and started the system dispatcher and waits for a signal
ServerInit ==
    [counter |-> 0, isShutdown |-> FALSE, inMap |-> TRUE, spare |-> FALSE,
     buf |-> <<>>, cur |-> NoOldMessage, w |-> "idle", r |-> "select",
     sig |-> 0, ch |-> 0, chClosed |-> FALSE,
     onStop |-> 0, closes |-> 0, sends |-> 0, errs |-> 0, pushes |-> 0, kills |-> 0]

\* ------------------------------ the server of server.go: message records
\* The same server with WithShunt configured, seen from its message records,
\* is the record oa:
\*   counter, isShutdown   slf.messageCounter, slf.isShutdown
\*   n           PushXxx calls made so far (bounded); the i-th call acquires record i
\*   kind        per record: the message type it was cast to ("" not acquired)
\*   buf         per dispatcher (the system dispatcher and the one shuntMatcher
\*               names): its queue of records
\*   tasks       records whose caller is running in the async pool
\*   rel, dec    per record: messagePool.Release calls, messageCounter.Add(-1) calls
\*   early       records released or decremented while their pool task was running
\*   live        records whose execution completed while isShutdown was false
OldDispatchers == {"system", "shunt"}
OldKinds == {"System", "Async", "ShuntAsync"}
OaIds == 1..MaxPushes
AsyncInit ==
    [counter |-> 0, isShutdown |-> FALSE, n |-> 0,
     kind |-> [i \in OaIds |-> ""],
     buf |-> [d \in OldDispatchers |-> <<>>],
     tasks |-> {},
     rel |-> [i \in OaIds |-> 0], dec |-> [i \in OaIds |-> 0],
     early |-> {}, live |-> {}]

\* ------------------------------------------------------------------ Run
\* Both servers while Run starts them are the record boot:
\*   run       position of Server.Run of part_002
\*   log       what part_002 has done so far, in order: "pool" (message pool
\*             created), "system" (system dispatcher created), "start" (its
\*             worker started), "MessageReady", "StartFinish"
\*   main, init, fin, adapter   positions of the goroutines of Server.Run of
\*             server.go: Run itself, connectionInitHandle, the goroutine that
\*             signals messageInitFinish and starts the system dispatcher, the
\*             network callback
\*   ch        signals pending in messageInitFinish (capacity 1)
\*   inMap     slf.dispatchers holds the system dispatcher
\*   pushes    PushPacketMessage calls of the network callback (bounded)
\*   logOld    what server.go has done so far, entries as in log and "push"
BootInit ==
    [run |-> "precheck", log |-> <<>>,
     main |-> "go", init |-> "none", fin |-> "none", adapter |-> "none",
     ch |-> 0, inMap |-> FALSE, pushes |-> 0, logOld |-> <<>>]

\* ------------------------------------------------------- deadlock watchdog
\* srv.deadlockDetect, in ticks of the clock
deadlockDetect == 2
\* A dispatcher of part_002 with deadlock detection on is the record wd; time is
\* counted in ticks:
\*   n         messages pushed so far (bounded); the i-th is message i
\*   dur       per message: the ticks its handler runs before it returns
\*   buf, cur  the dispatcher's queue; the message its worker executes (Nil: none)
\*   elapsed   ticks since dispatchMessage began for cur
\*   ctx       per message: the context of its dispatchMessage: "none" (not yet
\*             created), "armed", "Canceled", "DeadlineExceeded"
\*   watch     per message: the watchdog goroutine: "none", "waiting", "exited"
\*   fired     per message: OnDeadlockDetectEvent calls
\*   ran       per message: ticks its handler had run when it returned (Nil: it has not)
\*   order     the messages in the order the worker began them
\*   async     per message: its kind is one of the four async kinds
\*   pool      the async messages whose caller is running in srv.ants
\*   pel       per async message: ticks its caller has run in the pool
WdIds == 1..MaxWatched
WatchInit ==
    [n |-> 0, dur |-> [i \in WdIds |-> 0], buf |-> <<>>, cur |-> Nil, elapsed |-> 0,
     ctx |-> [i \in WdIds |-> "none"], watch |-> [i \in WdIds |-> "none"],
     fired |-> [i \in WdIds |-> 0], ran |-> [i \in WdIds |-> Nil], order |-> <<>>,
     async |-> [i \in WdIds |-> FALSE], pool |-> {}, pel |-> [i \in WdIds |-> 0]]

\* ---------------------------------------------------- message statistics
\* WithMessageStatistics(duration, limit): the number of windows kept
messageStatisticsLimit == 2
\* offsets the accessors are called with
Offsets == (0 - 1)..(messageStatisticsLimit + 1)
\* srv.runtime with message statistics on is the record ms:
\*   ring      r.messageStatistics: the counters, the current window first
\*   locked    r.messageStatisticsLock is held by a goroutine that is gone
\*   ret       what the last accessor call returned
\*   panic     the last accessor call panicked
\*   since     history: hitMessageStatistics calls since the last rotation
\*   hits, rot hitMessageStatistics calls and rotations so far (bounded)
\* startMessageStatistics has appended the first counter.
StatisticsInit ==
    [ring |-> <<0>>, locked |-> FALSE, ret |-> 0, panic |-> FALSE, since |-> 0,
     hits |-> 0, rot |-> 0]

\* ------------------------------------------------------- gateway framing
\* Strings and payloads are sequences of bytes (0..255).
\* The gateway connection and its upstream are the record gf:
\*   sent      the GP values re-framed so far, in order (bounded)
\*   up        the packets forwarded to the upstream connection and not yet read
\*   frames    every packet forwarded so far
\*   parsed    what the receiving side has parsed from the packets it read
GatewayInit == [sent |-> <<>>, up |-> <<>>, frames |-> <<>>, parsed |-> <<>>]

\* the GP value
GP(c, wt, d, t) == [C |-> c, WT |-> wt, D |-> d, T |-> t]

\* connection ids: "c-17" and an id with a quote and a backslash in it
ConnIds == {<<99, 45, 49, 55>>, <<97, 34, 92>>}
\* frame types
WebsocketTypes == {0, 2, 10}
\* time.Now().UnixNano()
Times == {7, 1700}
\* payloads: up to MaxData bytes out of 0x01 and 0xFF
RECURSIVE Payloads(_)
Payloads(n) ==
    IF n = 0 THEN {<<>>}
    ELSE Payloads(n - 1) \cup {Append(d, b) : d \in {x \in Payloads(n - 1) : Len(x) = n - 1},
                                             b \in {1, 255}}

\* ------------------------------------------------------------ Conn.Reuse
\* Two connections a and b, each with its transport handle, packet pool and
\* batch, are the record rc:
\*   conn    per connection: h the transport handle, pool the packet pool
\*           (Nil: nil), packets the batch (the slice as a value)
\*   hOpen, poolOpen   per transport handle / pool: not closed
\*   lock    per connection: who holds its mutex ("" nobody)
\*   wr      per connection: the Write call in progress on it
\*   reuse   position of a.Reuse(b); atCall: b's fields when it was called
\*   sawNil  a Write read packetPool = nil between Reuse's Close and its copy
\*   lost    packets of Write calls that returned without enqueuing
\*   n       Write calls made so far (bounded)
RConns == {"a", "b"}
Handles == {1, 2}
Pools == {1, 2}
NoWrite == [pc |-> "idle", p |-> NoPacket, got |-> Nil]
RConn(h, pl, packets) == [h |-> h, pool |-> pl, packets |-> packets]

ReuseInit ==
    [conn |-> [x \in RConns |-> IF x = "a" THEN RConn(1, 1, <<>>) ELSE RConn(2, 2, <<>>)],
     hOpen |-> [h \in Handles |-> TRUE], poolOpen |-> [q \in Pools |-> TRUE],
     lock |-> [x \in RConns |-> ""], wr |-> [x \in RConns |-> NoWrite],
     reuse |-> "idle", atCall |-> RConn(Nil, Nil, <<>>),
     sawNil |-> FALSE, lost |-> {}, crashed |-> FALSE, n |-> 0]

\* ------------------------------------------------- the connection mutex
\* Two connections a and b with their mutexes, their write loops and the
\* goroutines calling Write, Close and Reuse on them are the record mx:
\*   pool     per connection: slf.packetPool is not nil
\*   packets  per connection: len(slf.packets)
\*   mutex    per connection: who holds slf.mutex ("" nobody, "loop" its write
\*            loop, or a goroutine of Reusers)
\*   loop     per connection: its write loop, at the "top" of the loop, in the
\*            "send" loop, or "done" (returned)
\*   wr       per connection: a Write call is "idle" (none in progress) or at
\*            slf.mutex.Lock() ("lock")
\*   ru       per goroutine of Reusers: its x.Reuse(y) call: pc "idle" (not
\*            called), "self" (at slf.mutex.Lock()), "other" (at
\*            conn.mutex.Lock()), "body" (both held), "done" (returned)
\*   writes, closes   Write and Close calls made so far (bounded)
Reusers == {"r1", "r2"}
NoReuse == [pc |-> "idle", x |-> "a", y |-> "a"]
MutexInit ==
    [pool |-> [x \in RConns |-> TRUE], packets |-> [x \in RConns |-> 0],
     mutex |-> [x \in RConns |-> ""], loop |-> [x \in RConns |-> "top"],
     wr |-> [x \in RConns |-> "idle"], ru |-> [g \in Reusers |-> NoReuse],
     writes |-> 0, closes |-> 0]

\* ------------------------------------------------------- the v2 server
\* The async messages of the v2 server and the wait-counters of the queue they
\* are dispatched to are the record v2:
\*   sys     reactor.SysIdent, a constant of the reactor package ("unset"
\*           before the reactor is made)
\*   wait    the queue's wait-counter, per ident
\*   n       asyncMessage.Execute calls so far (bounded)
\*   ident, cb    per async message: s.ident, and s.callback is not nil
\*   pc      per async message: "none" (not executed), "queued" (its submitting
\*           message is queued), "pool" (its handler is in srv.ants), "callback"
\*           (its callback message is queued), "done" (the callback message has
\*           run), "lost" (the pool task has ended without a callback message)
\*   cbOn    per async message: the ident its callback message was dispatched to
\*   called  per async message: s.callback calls
AsyncIds == 1..MaxAsync
\* idents of async messages; "" dispatches with DispatchWithSystem
Idents == {"", "A"}
\* values reactor.SysIdent may have
SysIdents == {"", "system"}
ReactorInit ==
    [sys |-> "unset", wait |-> [id \in Idents \cup SysIdents |-> 0], n |-> 0,
     ident |-> [i \in AsyncIds |-> ""], cb |-> [i \in AsyncIds |-> FALSE],
     pc |-> [i \in AsyncIds |-> "none"], cbOn |-> [i \in AsyncIds |-> "none"],
     called |-> [i \in AsyncIds |-> 0]]

\* ------------------------------------------------------ the registry lock
\* srv.dispatcherLock (a sync.RWMutex) and the goroutines calling the
\* operations that take it are the record lk:
\*   writer   the goroutine holding the lock for writing ("" nobody)
\*   readers  the goroutines holding it for reading
\*   op       per goroutine: the operation it called
\*   inner    per goroutine: the operation a ShuntChannelCreated or
\*            ShuntChannelClosed handler calls when op fires the event ("none":
\*            no event is fired, or the handler calls none)
\*   pc       per goroutine: "idle"; "lock" (op is at Lock / RLock); "held" (op
\*            holds the lock); "lockIn" (the handler's operation is at Lock /
\*            RLock); "heldIn" (the handler's operation holds the lock)
Goroutines == {"g1", "g2"}
\* operations that take the lock for writing, and fire the shunt events under it
WriteOps == {"UseShunt", "ReleaseShunt", "shutdown"}
\* operations that take the lock for reading; PushShuntMessage does so in
\* getConnDispatcher
ReadOps == {"HasShunt", "GetShuntNum", "GetConnCurrShunt", "PushShuntMessage"}
LockInit ==
    [writer |-> "", readers |-> {}, op |-> [g \in Goroutines |-> "HasShunt"],
     inner |-> [g \in Goroutines |-> "none"], pc |-> [g \in Goroutines |-> "idle"]]

Message(id, t, conn, name, cb, err, from) ==
    [id |-> id, t |-> t, conn |-> conn, name |-> name, cb |-> cb, err |-> err, from |-> from]

\* no record acquired under this id
NoMessage == Message(Nil, "", NilConn, NoName, FALSE, "nil", Nil)

Init ==
    /\ systemDispatcher = Nil
    /\ disps = <<>>
    /\ dispatchers = [n \in ShuntNames |-> Nil]
    /\ dispatcherMember = [n \in ShuntNames |-> {}]
    /\ currDispatcher = [c \in Conns |-> Nil]
    /\ messageCounter = 0
    /\ closed = 0
    /\ ants = TRUE
    /\ pool = {}
    /\ pusher = <<>>
    /\ shut = "idle"
    /\ crashed = FALSE
    /\ events = <<>>
    /\ nMsgs = 0
    /\ nOps = 0
    /\ execBy = [i \in MsgIds |-> Nil]
    /\ putOn = [i \in MsgIds |-> Nil]
    /\ uniqOn = [i \in MsgIds |-> Nil]
    /\ antiOn = [i \in MsgIds |-> <<>>]
    /\ over = {}
    /\ migr = [c \in Conns |-> <<Nil>>]
    /\ putEp = [i \in MsgIds |-> 0]
    /\ msgs = [i \in MsgIds |-> NoMessage]
    /\ rel = [i \in MsgIds |-> 0]
    /\ wl = ConnInit
    /\ old = ServerInit
    /\ rc = ReuseInit
    /\ oa = AsyncInit
    /\ boot = BootInit
    /\ wd = WatchInit
    /\ gf = GatewayInit
    /\ ms = StatisticsInit
    /\ mx = MutexInit
    /\ v2 = ReactorInit
    /\ lk = LockInit

\* ------------------------------------------------------------------ helpers
Running == systemDispatcher # Nil /\ ~crashed

\* what external producers push: PushShuntMessage, PushShuntAsyncMessage,
\* PushUniqueShuntAsyncMessage, PushUniqueAsyncMessage (cb: callback is not nil)
\* the kinds the producers of this model push
PushKinds == {"Shunt", "UniqueShuntAsync"}
PushInputs ==
    {inp \in [t : {"Shunt"}, conn : Conns, name : {NoName}, cb : {FALSE}]
              \cup [t : {"ShuntAsync"}, conn : Conns, name : {NoName}, cb : BOOLEAN]
              \cup [t : {"UniqueShuntAsync"}, conn : Conns, name : Keys, cb : BOOLEAN]
              \cup [t : {"UniqueAsync"}, conn : {NilConn}, name : Keys, cb : BOOLEAN] :
        inp.t \in PushKinds}

\* Server.getConnDispatcher
getConnDispatcher(conn) ==
    IF conn = NilConn THEN systemDispatcher
    ELSE IF currDispatcher[conn] # Nil THEN currDispatcher[conn]
    ELSE systemDispatcher

\* variant of selectDispatcher: every kind goes to the system dispatcher
selectDispatcherSystem(m) == systemDispatcher

\* Server.pushMessage, the switch on message.t
selectDispatcher(m) ==
    IF m.t \in ShuntKinds THEN getConnDispatcher(m.conn)
    ELSE IF m.t \in SystemKinds THEN systemDispatcher
    ELSE Nil

\* Server.pushMessage from the unique test on: unique(key), hitMessageStatistics, put.
\* st holds the values it reads and writes.
pushMessagePut(st, m, d) ==
    IF m.t \in UniqueKinds /\ unique(st.ds, d, m.name)
    THEN st
    ELSE [ds |-> put(IF m.t \in UniqueKinds THEN uniqueSet(st.ds, d, m.name) ELSE st.ds, d, m),
          mc |-> st.mc + 1,
          putOn |-> IF st.ds[d].closed THEN st.putOn ELSE [st.putOn EXCEPT ![m.id] = d],
          putEp |-> IF st.ds[d].closed \/ m.conn = NilConn THEN st.putEp
                    ELSE [st.putEp EXCEPT ![m.id] = Len(migr[m.conn])],
          uniqOn |-> IF m.t \in UniqueKinds THEN [st.uniqOn EXCEPT ![m.id] = d] ELSE st.uniqOn]

PutState ==
    [ds |-> disps, mc |-> messageCounter, putOn |-> putOn, putEp |-> putEp, uniqOn |-> uniqOn]

\* the callback message a pool task pushes for async message m
CallbackKind(m) ==
    IF m.conn = NilConn
    THEN (IF m.t = "UniqueAsync" THEN "UniqueAsyncCallback" ELSE "AsyncCallback")
    ELSE (IF m.t = "UniqueShuntAsync" THEN "UniqueShuntAsyncCallback" ELSE "ShuntAsyncCallback")

CallbackMessage(m, err, from) ==
    Message(CallbackId(m.id), CallbackKind(m), m.conn,
            IF CallbackKind(m) \in UniqueCallbackKinds THEN m.name ELSE NoName,
            TRUE, err, from)

\* ------------------------------------------------------------------ startup
\* onMessageSystemInit: the system dispatcher is created and its worker started;
\* it is not entered in srv.dispatchers
onMessageSystemInit ==
    /\ systemDispatcher = Nil
    /\ ~crashed
    /\ disps' = Append(disps, generateDispatcher(serverSystemDispatcher))
    /\ systemDispatcher' = Len(disps) + 1
    /\ UNCHANGED <<dispatchers, dispatcherMember, currDispatcher, messageCounter, closed,
                   ants, pool, pusher, shut, crashed, events, nMsgs, nOps, execBy, putOn,
                   uniqOn, antiOn, over, migr, wl, old, rc, auxVars, rel,
                   putEp, msgs>>

\* ----------------------------------------------------------------- registry
\* variant of leaveMember: the connection stays a member of the shunt it leaves
leaveMemberKept(mem, name, conn) == mem

\* delete(srv.dispatcherMember[name], conn.GetID())
leaveMember(mem, name, conn) == [mem EXCEPT ![name] = @ \ {conn}]

\* variant of noMember: a shunt is never found empty
noMemberNever(mem, name) == FALSE

\* len(srv.dispatcherMember[name]) == 0
noMember(mem, name) == mem[name] = {}

\* Server.UseShunt, under dispatcherLock
UseShunt(conn, name) ==
    /\ Running
    /\ nMsgs + nOps < MaxCalls
    /\ nOps' = nOps + 1
    /\ LET exist == dispatchers[name] # Nil
           d == IF exist THEN dispatchers[name] ELSE Len(disps) + 1
           ds1 == IF exist THEN disps ELSE Append(disps, generateDispatcher(name))
           reg1 == [dispatchers EXCEPT ![name] = d]
           ev1 == IF exist THEN events ELSE Append(events, <<"created", name>>)
           curr == currDispatcher[conn]
       IN IF curr # Nil /\ ds1[curr].name = name
          THEN /\ disps' = ds1
               /\ dispatchers' = reg1
               /\ events' = ev1
               /\ UNCHANGED <<dispatcherMember, currDispatcher, migr>>
          ELSE LET cname == ds1[curr].name
                   mem1 == IF curr # Nil
                           THEN leaveMember(dispatcherMember, cname, conn)
                           ELSE dispatcherMember
                   teardown == /\ curr # Nil
                               /\ cname # serverSystemDispatcher
                               /\ noMember(mem1, cname)
               IN /\ disps' = IF teardown THEN close(transfer(ds1, curr, d), curr) ELSE ds1
                  /\ dispatchers' = IF teardown THEN [reg1 EXCEPT ![cname] = Nil] ELSE reg1
                  /\ events' = IF teardown THEN Append(ev1, <<"closed", ds1[d].name>>) ELSE ev1
                  /\ currDispatcher' = [currDispatcher EXCEPT ![conn] = d]
                  /\ dispatcherMember' = [mem1 EXCEPT ![name] = @ \cup {conn}]
                  /\ migr' = [migr EXCEPT ![conn] = Append(@, d)]
    /\ UNCHANGED <<systemDispatcher, messageCounter, closed, ants, pool, pusher, shut,
                   crashed, nMsgs, execBy, putOn, uniqOn, antiOn, over, wl, old, rc, auxVars, rel,
                   putEp, msgs>>

\* variant of deleteCurr: the connection keeps its dispatcher
deleteCurrKept(cur, conn) == cur

\* delete(srv.currDispatcher, cid)
deleteCurr(cur, conn) == [cur EXCEPT ![conn] = Nil]

\* Server.ReleaseShunt / Server.releaseDispatcher, under dispatcherLock
ReleaseShunt(conn) ==
    /\ Running
    /\ nMsgs + nOps < MaxCalls
    /\ nOps' = nOps + 1
    /\ LET d == IF conn = NilConn THEN Nil ELSE currDispatcher[conn]
       IN IF d # Nil /\ disps[d].name # serverSystemDispatcher
          THEN LET dname == disps[d].name
                   mem1 == leaveMember(dispatcherMember, dname, conn)
                   empty == noMember(mem1, dname)
               IN /\ dispatcherMember' = mem1
                  /\ events' = IF empty THEN Append(events, <<"closed", dname>>) ELSE events
                  /\ disps' = IF empty THEN close(disps, d) ELSE disps
                  /\ dispatchers' = IF empty THEN [dispatchers EXCEPT ![dname] = Nil]
                                    ELSE dispatchers
                  /\ currDispatcher' = deleteCurr(currDispatcher, conn)
                  /\ migr' = [migr EXCEPT ![conn] = Append(@, Nil)]
          ELSE UNCHANGED <<dispatcherMember, events, disps, dispatchers, currDispatcher, migr>>
    /\ UNCHANGED <<systemDispatcher, messageCounter, closed, ants, pool, pusher, shut,
                   crashed, nMsgs, execBy, putOn, uniqOn, antiOn, over, wl, old, rc, auxVars, rel,
                   putEp, msgs>>

\* ------------------------------------------------------------- pushMessage
\* srv.messagePool.Release(message)
release(r, id) == [r EXCEPT ![id] = @ + 1]
\* if atomic.CompareAndSwapUint32(&srv.closed, 0, 0) { srv.messagePool.Release(msg) }
releaseUnlessClosed(r, id) == IF closed = 0 THEN release(r, id) ELSE r

\* variant of PushSelect: the answer of OnMessageExecBefore is not looked at
PushSelectNoVeto(inp, veto) ==
    /\ Running
    /\ pusher = <<>>
    /\ nMsgs + nOps < MaxCalls
    /\ nMsgs' = nMsgs + 1
    /\ LET m == Message(nMsgs + 1, inp.t, inp.conn, inp.name, inp.cb, "nil", Nil)
           d == selectDispatcher(m)
       IN /\ pusher' = IF d = Nil THEN <<>> ELSE <<[m |-> m, d |-> d]>>
          /\ msgs' = [msgs EXCEPT ![m.id] = m]
          /\ rel' = rel
    /\ UNCHANGED <<systemDispatcher, disps, dispatchers, dispatcherMember, currDispatcher,
                   messageCounter, closed, ants, pool, shut, crashed, events, nOps,
                   execBy, putOn, uniqOn, antiOn, over, migr, wl, old, rc, auxVars,
                   putEp>>

\* an external producer calls PushXxx: the record is taken from the pool,
\* OnMessageExecBefore may veto it, and the dispatcher is selected
PushSelect(inp, veto) ==
    /\ Running
    /\ pusher = <<>>
    /\ nMsgs + nOps < MaxCalls
    /\ nMsgs' = nMsgs + 1
    /\ LET m == Message(nMsgs + 1, inp.t, inp.conn, inp.name, inp.cb, "nil", Nil)
           d == selectDispatcher(m)
       IN /\ pusher' = IF veto \/ d = Nil THEN <<>> ELSE <<[m |-> m, d |-> d]>>
          /\ msgs' = [msgs EXCEPT ![m.id] = m]
          /\ rel' = IF veto THEN release(rel, m.id) ELSE rel
    /\ UNCHANGED <<systemDispatcher, disps, dispatchers, dispatcherMember, currDispatcher,
                   messageCounter, closed, ants, pool, shut, crashed, events, nOps,
                   execBy, putOn, uniqOn, antiOn, over, migr, wl, old, rc, auxVars,
                   putEp>>

\* the producer goes on: unique test, counter, put
PushPut ==
    /\ ~crashed
    /\ pusher # <<>>
    /\ LET st == pushMessagePut(PutState, pusher[1].m, pusher[1].d)
       IN /\ disps' = st.ds
          /\ messageCounter' = st.mc
          /\ putOn' = st.putOn
          /\ putEp' = st.putEp
          /\ uniqOn' = st.uniqOn
    /\ rel' = IF pusher[1].m.t \in UniqueKinds /\ unique(disps, pusher[1].d, pusher[1].m.name)
              THEN release(rel, pusher[1].m.id) ELSE rel
    /\ pusher' = <<>>
    /\ UNCHANGED <<systemDispatcher, dispatchers, dispatcherMember, currDispatcher, closed,
                   ants, pool, shut, crashed, events, nMsgs, nOps, execBy, antiOn, over,
                   migr, wl, old, rc, auxVars,
                   msgs>>

\* --------------------------------------------------------- dispatchMessage
\* variant of dispatchMessage: the worker does not wait for the handler of a non-async message
dispatchMessageNoWait(d, m, ds) ==
    IF m.t \in AsyncKinds
    THEN /\ disps' = ds
         /\ IF ants
            THEN /\ pool' = pool \cup {[m |-> m, d |-> d, pc |-> "run", cbm |-> m, target |-> Nil]}
                 /\ UNCHANGED crashed
            ELSE /\ crashed' = TRUE
                 /\ UNCHANGED pool
    ELSE /\ disps' = [ds EXCEPT ![d].cur = @ \cup {m}]
         /\ UNCHANGED <<pool, crashed>>

\* Server.dispatchMessage(dispatcher, msg) up to the point where the worker waits
\* for the handler: an async kind is submitted to the pool and dispatchMessage
\* returns (a failed Submit panics, and nothing recovers it for these kinds);
\* any other kind is run by the worker itself. ds: the dispatchers after the pop.
dispatchMessage(d, m, ds) ==
    IF m.t \in AsyncKinds
    THEN /\ disps' = ds
         /\ IF ants
            THEN /\ pool' = pool \cup {[m |-> m, d |-> d, pc |-> "run", cbm |-> m, target |-> Nil]}
                 /\ UNCHANGED crashed
            ELSE /\ crashed' = TRUE
                 /\ UNCHANGED pool
    ELSE /\ disps' = [ds EXCEPT ![d].busy = TRUE, ![d].cur = @ \cup {m}]
         /\ UNCHANGED <<pool, crashed>>

\* dispatcher.start: the worker takes the head of its queue and calls the handler
WorkerBegin(d) ==
    /\ ~crashed
    /\ ~disps[d].busy
    /\ disps[d].buf # <<>>
    /\ LET m == Head(disps[d].buf)
       IN /\ execBy' = [execBy EXCEPT ![m.id] = d]
          /\ dispatchMessage(d, m, [disps EXCEPT ![d].buf = Tail(@)])
    /\ UNCHANGED <<systemDispatcher, dispatchers, dispatcherMember, currDispatcher,
                   messageCounter, closed, ants, pusher, shut, events, nMsgs, nOps,
                   putOn, uniqOn, antiOn, over, migr, wl, old, rc, auxVars, rel,
                   putEp, msgs>>

\* the handler of a non-async message returns (or panics and is recovered) and the
\* deferred function of dispatchMessage runs: antiUnique for the unique callback
\* kinds, the counter decrement
WorkerEnd(d) ==
    /\ ~crashed
    /\ \E m \in disps[d].cur :
        LET uq == m.t \in UniqueCallbackKinds
            ds1 == IF uq THEN antiUnique(disps, d, m.name) ELSE disps
        IN /\ disps' = [ds1 EXCEPT ![d].busy = FALSE, ![d].cur = @ \ {m}]
           /\ antiOn' = IF uq THEN [antiOn EXCEPT ![OriginId(m.id)] = Append(@, d)] ELSE antiOn
           /\ messageCounter' = messageCounter - 1
           /\ over' = over \cup {m.id}
           /\ rel' = releaseUnlessClosed(rel, m.id)
    /\ UNCHANGED <<systemDispatcher, dispatchers, dispatcherMember, currDispatcher, closed,
                   ants, pool, pusher, shut, crashed, events, nMsgs, nOps, execBy, putOn,
                   uniqOn, migr, wl, old, rc, auxVars,
                   putEp, msgs>>

\* the pool task of an async message: the caller runs and returns err, or panics.
\*   panic: recovered in the deferred function, antiUnique for the unique kinds;
\*   callback present: the callback message is built and pushMessage starts
\*     (OnMessageExecBefore may veto it, the dispatcher is selected);
\*   no callback: dispatcher.antiUnique(msg.name).
\* The deferred function (counter decrement) ends the task unless a put is pending.
PoolRun(task, outcome, veto) ==
    /\ ~crashed
    /\ task \in pool
    /\ task.pc = "run"
    /\ LET m == task.m
           uq == m.t \in UniqueKinds
           cbm == CallbackMessage(m, outcome, task.d)
           pushes == outcome # "panic" /\ m.cb /\ ~veto /\ selectDispatcher(cbm) # Nil
           anti == (outcome = "panic" /\ uq) \/ (outcome # "panic" /\ ~m.cb)
       IN /\ pool' = IF pushes
                     THEN (pool \ {task}) \cup
                          {[task EXCEPT !.pc = "put", !.cbm = cbm, !.target = selectDispatcher(cbm)]}
                     ELSE pool \ {task}
          /\ disps' = IF anti THEN antiUnique(disps, task.d, m.name) ELSE disps
          /\ antiOn' = IF anti /\ uq THEN [antiOn EXCEPT ![m.id] = Append(@, task.d)] ELSE antiOn
          /\ messageCounter' = IF pushes THEN messageCounter ELSE messageCounter - 1
          /\ over' = IF pushes THEN over ELSE over \cup {m.id}
          /\ msgs' = IF outcome # "panic" /\ m.cb THEN [msgs EXCEPT ![cbm.id] = cbm] ELSE msgs
          /\ rel' = LET r1 == IF outcome # "panic" /\ m.cb /\ veto
                              THEN release(rel, cbm.id) ELSE rel
                    IN IF pushes THEN r1 ELSE releaseUnlessClosed(r1, m.id)
    /\ UNCHANGED <<systemDispatcher, dispatchers, dispatcherMember, currDispatcher, closed,
                   ants, pusher, shut, crashed, events, nMsgs, nOps, execBy, putOn, uniqOn,
                   migr, wl, old, rc, auxVars,
                   putEp>>

\* the pool task goes on: the callback message is counted and put, the task
\* returns and its deferred function decrements the counter for the async message
PoolPut(task) ==
    /\ ~crashed
    /\ task \in pool
    /\ task.pc = "put"
    /\ LET st == pushMessagePut(PutState, task.cbm, task.target)
       IN /\ disps' = st.ds
          /\ messageCounter' = st.mc - 1
          /\ putOn' = st.putOn
          /\ putEp' = st.putEp
          /\ uniqOn' = st.uniqOn
    /\ pool' = pool \ {task}
    /\ over' = over \cup {task.m.id}
    /\ rel' = releaseUnlessClosed(rel, task.m.id)
    /\ UNCHANGED <<systemDispatcher, dispatchers, dispatcherMember, currDispatcher, closed,
                   ants, pusher, shut, crashed, events, nMsgs, nOps, execBy, antiOn, migr, wl, old, rc, auxVars,
                   msgs>>

\* ----------------------------------------------------------------- shutdown
\* Server.shutdown: the CAS on srv.closed
ShutdownBegin ==
    /\ Running
    /\ shut = "idle"
    /\ closed = 0
    /\ closed' = 1
    /\ shut' = "waiting"
    /\ UNCHANGED <<systemDispatcher, disps, dispatchers, dispatcherMember, currDispatcher,
                   messageCounter, ants, pool, pusher, crashed, events, nMsgs, nOps, execBy,
                   putOn, uniqOn, antiOn, over, migr, wl, old, rc, auxVars, rel,
                   putEp, msgs>>

\* the wait loop sees the counter not above zero; OnStopEvent
ShutdownWait ==
    /\ ~crashed
    /\ shut = "waiting"
    /\ ~(messageCounter > 0)
    /\ shut' = "teardown"
    /\ events' = Append(events, <<"stop", NoName>>)
    /\ UNCHANGED <<systemDispatcher, disps, dispatchers, dispatcherMember, currDispatcher,
                   messageCounter, closed, ants, pool, pusher, crashed, nMsgs, nOps, execBy,
                   putOn, uniqOn, antiOn, over, migr, wl, old, rc, auxVars, rel,
                   putEp, msgs>>

\* the names registered in srv.dispatchers, in one of the orders a map range gives
RegisteredOrders ==
    LET names == {n \in ShuntNames : dispatchers[n] # Nil}
    IN {s \in [1..Cardinality(names) -> names] : \A i, j \in DOMAIN s : i # j => s[i] # s[j]}

RECURSIVE closeAll(_, _)
closeAll(ds, ids) ==
    IF ids = <<>> THEN ds ELSE closeAll(close(ds, Head(ids)), Tail(ids))

\* the rest of shutdown: the pool is released, every dispatcher of srv.dispatchers
\* is closed and deleted with OnShuntChannelClosedEvent(d.name), the close channel
\* is signalled
ShutdownTeardown ==
    /\ ~crashed
    /\ shut = "teardown"
    /\ ants' = FALSE
    /\ \E order \in RegisteredOrders :
        /\ events' = events \o [i \in DOMAIN order |-> <<"closed", disps[dispatchers[order[i]]].name>>]
        /\ disps' = closeAll(disps, [i \in DOMAIN order |-> dispatchers[order[i]]])
    /\ dispatchers' = [n \in ShuntNames |-> Nil]
    /\ shut' = "done"
    /\ UNCHANGED <<systemDispatcher, dispatcherMember, currDispatcher, messageCounter, closed,
                   pool, pusher, crashed, nMsgs, nOps, execBy, putOn, uniqOn, antiOn, over,
                   migr, wl, old, rc, auxVars, rel,
                   putEp, msgs>>

\* -------------------------------------------------------------------- Next
Next ==
    \/ onMessageSystemInit
    \/ \E c \in Conns, n \in ShuntNames : UseShunt(c, n)
    \/ \E c \in Conns \cup {NilConn} : ReleaseShunt(c)
    \/ \E inp \in PushInputs, veto \in BOOLEAN : PushSelect(inp, veto)
    \/ PushPut
    \/ \E d \in DispIds : WorkerBegin(d)
    \/ \E d \in DispIds : WorkerEnd(d)
    \/ \E task \in pool, outcome \in {"nil", "err", "panic"}, veto \in BOOLEAN :
           PoolRun(task, outcome, veto)
    \/ \E task \in pool : PoolPut(task)
    \/ ShutdownBegin
    \/ ShutdownWait
    \/ ShutdownTeardown

Spec == Init /\ [][Next]_vars

\* ------------------------------------------------------------------ routing
\* the producers of every PushXxx function: each kind of the switch of
\* pushMessage, for a bound, an unbound or no connection
RouteInputs ==
    [t : ShuntKinds \ UniqueKinds, conn : Conns \cup {NilConn}, name : {NoName}, cb : {FALSE}]
        \cup [t : {"UniqueShuntAsync"}, conn : Conns \cup {NilConn}, name : Keys, cb : {FALSE}]
        \cup [t : SystemKinds \ UniqueKinds, conn : {NilConn}, name : {NoName}, cb : {FALSE}]
        \cup [t : {"UniqueAsync"}, conn : {NilConn}, name : Keys, cb : {FALSE}]

\* pushMessage under every PushXxx function and the registry operations, with
\* no worker running
NextRoute ==
    \/ onMessageSystemInit
    \/ \E c \in Conns, n \in ShuntNames : UseShunt(c, n)
    \/ \E c \in Conns \cup {NilConn} : ReleaseShunt(c)
    \/ \E inp \in RouteInputs, veto \in BOOLEAN : PushSelect(inp, veto)
    \/ PushPut

SpecRoute == Init /\ [][NextRoute]_vars

\* ---------------------------------------------------------------- write loop
\* cp := packetPool.Get(); cp.packet, cp.callback = ...; append(slf.packets, cp),
\* with r the record the pool gave
writePacket(c, p, cb, r) ==
    appendPacket([c EXCEPT !.free = @ \ {r},
                           !.recs = IF r > Len(@)
                                    THEN Append(@, [packet |-> p, cb |-> cb])
                                    ELSE [@ EXCEPT ![r] = [packet |-> p, cb |-> cb]]], r)

\* Conn.Write / Conn.WriteWithCallback (cb: with a callback) of packet p, on a
\* connection that has no gateway function
Write(p, cb) ==
    /\ wl.n < MaxWrites
    /\ p = wl.n + 1
    /\ IF ~wl.pool
       THEN wl' = [wl EXCEPT !.n = p, !.dropped = @ \cup {p}]
       ELSE \E r \in poolGet(wl) :
               wl' = writePacket([wl EXCEPT !.n = p,
                                            !.reqs = IF cb THEN @ \cup {p} ELSE @],
                                 p, cb, r)
    /\ UNCHANGED <<srvVars, old, rc, auxVars>>

\* Write / WriteWithCallback on a gateway connection whose upstream connection
\* is wl: slf.gw(packet) calls the upstream's Write, the callback is not passed on
GatewayWrite(p, cb) ==
    /\ wl.n < MaxWrites
    /\ p = wl.n + 1
    /\ LET c1 == [wl EXCEPT !.n = p,
                            !.reqs = IF cb /\ ~wl.gwClosed THEN @ \cup {p} ELSE @,
                            !.dropped = IF wl.gwClosed THEN @ \cup {p} ELSE @]
       IN IF ~wl.pool
          THEN wl' = c1
          ELSE \E r \in poolGet(wl) : wl' = writePacket(c1, p, FALSE, r)
    /\ UNCHANGED <<srvVars, old, rc, auxVars>>

\* Conn.Close called from outside the write loop
Close ==
    /\ wl.closes < MaxCloses
    /\ wl' = [connClose(wl) EXCEPT !.closes = @ + 1]
    /\ UNCHANGED <<srvVars, old, rc, auxVars>>

\* Conn.Close on the gateway connection: it has no transport handle and no pool
GatewayClose ==
    /\ ~wl.gwClosed
    /\ wl' = [wl EXCEPT !.gwClosed = TRUE]
    /\ UNCHANGED <<srvVars, old, rc, auxVars>>

\* writeLoop, the top of the loop under the mutex: return when the pool is gone,
\* otherwise take the batch (packets := slf.packets[0:]) and clear it
\* (slf.packets = slf.packets[0:0]); an empty batch is polled again
LoopTake ==
    /\ wl.pc = "top"
    /\ IF ~wl.pool
       THEN wl' = [wl EXCEPT !.pc = "done"]
       ELSE /\ wl.packets.len > 0
            /\ wl' = [wl EXCEPT !.batch = wl.packets, !.packets.len = 0, !.i = 0, !.pc = "send"]
    /\ UNCHANGED <<srvVars, old, rc, auxVars>>

\* the inner loop going on after a transport error
LoopSendNoClose(err) ==
    /\ wl.pc = "send"
    /\ IF ~wl.pool
       THEN wl' = [wl EXCEPT !.pc = "done", !.batch = NilSlice]
       ELSE LET r == wl.arrs[wl.batch.a][wl.i + 1]
                last == wl.i + 1 = wl.batch.len
            IN wl' = [wl EXCEPT !.sent = Append(@, wl.recs[r].packet),
                                !.called = IF wl.recs[r].cb
                                           THEN Append(@, wl.recs[r].packet) ELSE @,
                                !.failed = @ \/ err,
                                !.recs[r] = resetPacket,
                                !.free = @ \cup {r},
                                !.i = IF last THEN 0 ELSE wl.i + 1,
                                !.batch = IF last THEN NilSlice ELSE @,
                                !.pc = IF last THEN "top" ELSE "send"]
    /\ UNCHANGED <<srvVars, old, rc, auxVars>>

\* writeLoop, one turn of the inner loop: data := packets[i] is given to the
\* transport, released into the pool, its callback called; a transport error
\* panics, and the recovery closes the connection
LoopSend(err) ==
    /\ wl.pc = "send"
    /\ IF ~wl.pool
       THEN wl' = [wl EXCEPT !.pc = "done", !.batch = NilSlice]
       ELSE LET r == wl.arrs[wl.batch.a][wl.i + 1]
                last == wl.i + 1 = wl.batch.len
                c1 == [wl EXCEPT !.sent = Append(@, wl.recs[r].packet),
                                 !.called = IF wl.recs[r].cb
                                            THEN Append(@, wl.recs[r].packet) ELSE @,
                                 !.failed = @ \/ err,
                                 !.recs[r] = resetPacket,
                                 !.free = @ \cup {r},
                                 !.i = IF last \/ err THEN 0 ELSE wl.i + 1,
                                 !.batch = IF last \/ err THEN NilSlice ELSE @,
                                 !.pc = IF err THEN "done" ELSE IF last THEN "top" ELSE "send"]
            IN wl' = IF err THEN connClose(c1) ELSE c1
    /\ UNCHANGED <<srvVars, old, rc, auxVars>>

NextConn ==
    \/ \E p \in 1..MaxWrites, cb \in BOOLEAN : Write(p, cb)
    \/ \E p \in 1..MaxWrites, cb \in BOOLEAN : GatewayWrite(p, cb)
    \/ Close
    \/ GatewayClose
    \/ LoopTake
    \/ \E err \in BOOLEAN : LoopSend(err)

SpecConn == Init /\ [][NextConn]_vars

\* ------------------------------------------------- the server of server.go
\* dispatchMessage's deferred function: a panic is recovered and reported, the
\* counter is decremented; the worker takes the next message
deferred(o, panicked) ==
    [o EXCEPT !.errs = IF panicked THEN @ + 1 ELSE @,
              !.counter = @ - 1, !.w = "idle", !.cur = NoOldMessage]

\* positions inside shutdown
InShutdown(pc) == pc \in {"wait", "tear", "signal"}

\* who runs shutdown: the goroutine of Run, the system dispatcher's worker
Invokers == {"run", "worker"}
position(o, g) == IF g = "run" THEN o.r ELSE o.w
\* the err argument of the invocation is not nil
withErr(o, g) == g = "worker" /\ o.cur.err

\* pushMessage: the system dispatcher is looked up, or created when the map
\* does not hold it; the message is counted and put
pushMessageOld(m) ==
    /\ old.pushes < MaxPushes
    /\ old' = IF old.inMap
              THEN [old EXCEPT !.pushes = @ + 1, !.counter = @ + 1, !.buf = Append(@, m)]
              ELSE [old EXCEPT !.pushes = @ + 1, !.counter = @ + 1, !.spare = TRUE]
    /\ UNCHANGED <<srvVars, wl, rc, auxVars>>

\* the worker of the system dispatcher takes the head of its queue
dispatchBeginOld ==
    /\ old.w = "idle"
    /\ old.buf # <<>>
    /\ old' = [old EXCEPT !.cur = Head(old.buf), !.buf = Tail(old.buf), !.w = "exec"]
    /\ UNCHANGED <<srvVars, wl, rc, auxVars>>

\* dispatchMessage: a System handler runs and returns; an Error message with
\* action None panics (log.Panic); with action Shutdown it calls shutdown(msg.err),
\* which stores isShutdown and enters its wait loop
dispatchMessageOld ==
    /\ old.w = "exec"
    /\ old' = IF old.cur.t = "System" THEN deferred(old, FALSE)
              ELSE IF old.cur.act = "None" THEN deferred(old, TRUE)
              ELSE [old EXCEPT !.isShutdown = TRUE, !.w = "wait"]
    /\ UNCHANGED <<srvVars, wl, rc, auxVars>>

\* Server.Shutdown: a signal is sent into slf.systemSignal
ShutdownOld ==
    /\ old.kills < MaxSignals
    /\ old.sig = 0
    /\ old' = [old EXCEPT !.kills = @ + 1, !.sig = 1]
    /\ UNCHANGED <<srvVars, wl, rc, auxVars>>

\* Run receives the signal and calls shutdown(nil), which stores isShutdown
\* and enters its wait loop
RunSignal ==
    /\ old.r = "select"
    /\ old.sig > 0
    /\ old' = [old EXCEPT !.sig = 0, !.isShutdown = TRUE, !.r = "wait"]
    /\ UNCHANGED <<srvVars, wl, rc, auxVars>>

\* shutdown: the wait loop ends when the counter is not above zero; OnStopEvent
shutdownWaitOld(g) ==
    /\ position(old, g) = "wait"
    /\ old.counter <= 0
    /\ old' = IF g = "run" THEN [old EXCEPT !.onStop = @ + 1, !.r = "tear"]
              ELSE [old EXCEPT !.onStop = @ + 1, !.w = "tear"]
    /\ UNCHANGED <<srvVars, wl, rc, auxVars>>

\* shutdown: every dispatcher of the map is closed and deleted; with an error
\* log.Panic follows, which dispatchMessage's deferred function recovers
shutdownTeardownOld(g) ==
    /\ position(old, g) = "tear"
    /\ LET o1 == [old EXCEPT !.closes = IF old.inMap THEN @ + 1 ELSE @,
                             !.inMap = FALSE, !.spare = FALSE]
       IN old' = IF withErr(old, g) THEN deferred(o1, TRUE)
                 ELSE IF g = "run" THEN [o1 EXCEPT !.r = "signal"]
                 ELSE [o1 EXCEPT !.w = "signal"]
    /\ UNCHANGED <<srvVars, wl, rc, auxVars>>

\* shutdown: slf.closeChannel <- struct{}{}; it blocks while the channel is
\* full, and panics when Run has closed the channel
shutdownSignalOld(g) ==
    /\ position(old, g) = "signal"
    /\ old.chClosed \/ old.ch = 0
    /\ old' = IF old.chClosed
              THEN (IF g = "run" THEN [old EXCEPT !.r = "returned"]
                    ELSE deferred(old, TRUE))
              ELSE IF g = "run"
                   THEN [old EXCEPT !.ch = 1, !.sends = @ + 1, !.r = "recv"]
                   ELSE deferred([old EXCEPT !.ch = 1, !.sends = @ + 1], FALSE)
    /\ UNCHANGED <<srvVars, wl, rc, auxVars>>

\* Run receives from slf.closeChannel, closes it and returns
RunReturn ==
    /\ old.r = "recv"
    /\ old.ch > 0
    /\ old' = [old EXCEPT !.ch = 0, !.chClosed = TRUE, !.r = "returned"]
    /\ UNCHANGED <<srvVars, wl, rc, auxVars>>

NextOld ==
    \/ \E m \in OldInputs : pushMessageOld(m)
    \/ dispatchBeginOld
    \/ dispatchMessageOld
    \/ ShutdownOld
    \/ RunSignal
    \/ \E g \in Invokers : shutdownWaitOld(g)
    \/ \E g \in Invokers : shutdownTeardownOld(g)
    \/ \E g \in Invokers : shutdownSignalOld(g)
    \/ RunReturn

SpecOld == Init /\ [][NextOld]_vars

\* --------------------------------- the server of server.go: message records
\* the deferred functions of dispatchMessage (for every kind but Async) and of
\* the pool task: messageCounter.Add(-1), and messagePool.Release(msg) unless
\* isShutdown; running is TRUE when the record's pool task has not finished
deferredRelease(o, i, running) ==
    [o EXCEPT !.counter = @ - 1,
              !.dec[i] = @ + 1,
              !.rel[i] = IF o.isShutdown THEN @ ELSE @ + 1,
              !.early = IF running THEN @ \cup {i} ELSE @]

\* the dispatcher pushMessage selects
dispatcherOf(t) == IF t = "ShuntAsync" THEN "shunt" ELSE "system"

\* PushSystemMessage, PushAsyncMessage, PushShuntAsyncMessage (callback nil):
\* the record is acquired and cast; pushMessage counts it and puts it
pushMessageKind(t) ==
    /\ oa.n < MaxPushes
    /\ LET i == oa.n + 1
       IN oa' = [oa EXCEPT !.n = i, !.kind[i] = t, !.counter = @ + 1,
                           !.buf[dispatcherOf(t)] = Append(@, i)]
    /\ UNCHANGED <<srvVars, wl, old, rc, boot, wd, gf, extVars>>

\* the worker of dispatcher d takes the head of its queue; dispatchMessage:
\*   System: the handler runs, then the deferred function;
\*   Async: the caller is submitted to the pool, no deferred function;
\*   ShuntAsync: the caller is submitted to the pool, then the deferred function
\*     runs as dispatchMessage returns (msg.t != MessageTypeAsync)
dispatchMessageKind(d) ==
    /\ oa.buf[d] # <<>>
    /\ LET i == Head(oa.buf[d])
           o1 == [oa EXCEPT !.buf[d] = Tail(@)]
       IN oa' = IF oa.kind[i] = "System"
                THEN [deferredRelease(o1, i, FALSE)
                          EXCEPT !.live = IF oa.isShutdown THEN @ ELSE @ \cup {i}]
                ELSE IF oa.kind[i] = "Async"
                THEN [o1 EXCEPT !.tasks = @ \cup {i}]
                ELSE deferredRelease([o1 EXCEPT !.tasks = @ \cup {i}], i, TRUE)
    /\ UNCHANGED <<srvVars, wl, old, rc, boot, wd, gf, extVars>>

\* the pool task of record i: the caller returns or panics, and the task's
\* deferred function runs
poolTask(i) ==
    /\ i \in oa.tasks
    /\ oa' = [deferredRelease([oa EXCEPT !.tasks = @ \ {i}], i, FALSE)
                  EXCEPT !.live = IF oa.isShutdown THEN @ ELSE @ \cup {i}]
    /\ UNCHANGED <<srvVars, wl, old, rc, boot, wd, gf, extVars>>

\* shutdown: slf.isShutdown.Store(true)
shutdownStore ==
    /\ ~oa.isShutdown
    /\ oa' = [oa EXCEPT !.isShutdown = TRUE]
    /\ UNCHANGED <<srvVars, wl, old, rc, boot, wd, gf, extVars>>

NextOldAsync ==
    \/ \E t \in OldKinds : pushMessageKind(t)
    \/ \E d \in OldDispatchers : dispatchMessageKind(d)
    \/ \E i \in OaIds : poolTask(i)
    \/ shutdownStore

SpecOldAsync == Init /\ [][NextOldAsync]_vars

\* ------------------------------------------------------------------ Run
\* part_002, Server.Run: preCheckAndAdaptation hands the listening to the
\* network adapter and returns startState; onServicesInit
RunPreCheck ==
    /\ boot.run = "precheck"
    /\ boot' = [boot EXCEPT !.run = "messageInit"]
    /\ UNCHANGED <<srvVars, wl, old, rc, oa, wd, gf, extVars>>

\* part_002, onMessageSystemInit: the message pool, the system dispatcher,
\* go start(), OnMessageReadyEvent
messageSystemInit(lg) == lg \o <<"pool", "system", "start", "MessageReady">>

RunMessageSystemInit ==
    /\ boot.run = "messageInit"
    /\ boot' = [boot EXCEPT !.run = "startState", !.log = messageSystemInit(@)]
    /\ UNCHANGED <<srvVars, wl, old, rc, oa, wd, gf, extVars>>

\* part_002, Server.Run: err = <-startState is nil; OnStartFinishEvent
RunStartState ==
    /\ boot.run = "startState"
    /\ boot' = [boot EXCEPT !.run = "signal", !.log = Append(@, "StartFinish")]
    /\ UNCHANGED <<srvVars, wl, old, rc, oa, wd, gf, extVars>>

\* server.go, Server.Run: go connectionInitHandle(callback)
RunGo ==
    /\ boot.main = "go"
    /\ boot' = [boot EXCEPT !.main = "recv", !.init = "run"]
    /\ UNCHANGED <<srvVars, wl, old, rc, oa, wd, gf, extVars>>

\* server.go, connectionInitHandle: the message pool is created, then
\* go callback() and the goroutine for messageInitFinish are started
connectionInitHandle ==
    /\ boot.init = "run"
    /\ boot' = [boot EXCEPT !.init = "done", !.adapter = "serve", !.fin = "send",
                            !.logOld = Append(@, "pool")]
    /\ UNCHANGED <<srvVars, wl, old, rc, oa, wd, gf, extVars>>

\* server.go: messageInitFinish <- struct{}{}
initFinishSend ==
    /\ boot.fin = "send"
    /\ boot' = [boot EXCEPT !.fin = "use", !.ch = 1]
    /\ UNCHANGED <<srvVars, wl, old, rc, oa, wd, gf, extVars>>

\* server.go: d, _ := slf.useDispatcher(serverSystemDispatcher); d.start()
initFinishStart ==
    /\ boot.fin = "use"
    /\ boot' = [boot EXCEPT !.fin = "loop", !.inMap = TRUE,
                            !.logOld = IF boot.inMap THEN Append(@, "start")
                                       ELSE @ \o <<"system", "start">>]
    /\ UNCHANGED <<srvVars, wl, old, rc, oa, wd, gf, extVars>>

\* server.go, Server.Run: <-messageInitFinish, then OnStartFinishEvent
RunInitFinish ==
    /\ boot.main = "recv"
    /\ boot.ch > 0
    /\ boot' = [boot EXCEPT !.main = "sleep", !.ch = 0, !.logOld = Append(@, "StartFinish")]
    /\ UNCHANGED <<srvVars, wl, old, rc, oa, wd, gf, extVars>>

\* server.go, Server.Run: time.Sleep(time.Second) is over, isShutdown is
\* false; OnMessageReadyEvent
RunMessageReady ==
    /\ boot.main = "sleep"
    /\ boot' = [boot EXCEPT !.main = "signal", !.logOld = Append(@, "MessageReady")]
    /\ UNCHANGED <<srvVars, wl, old, rc, oa, wd, gf, extVars>>

\* server.go, the network callback receives a packet: PushPacketMessage, whose
\* pushMessage calls useDispatcher(serverSystemDispatcher), which creates the
\* dispatcher when the map does not hold it
adapterPush ==
    /\ boot.adapter = "serve"
    /\ boot.pushes < MaxBootPushes
    /\ boot' = [boot EXCEPT !.pushes = @ + 1, !.inMap = TRUE,
                            !.logOld = IF boot.inMap THEN Append(@, "push")
                                       ELSE @ \o <<"push", "system">>]
    /\ UNCHANGED <<srvVars, wl, old, rc, oa, wd, gf, extVars>>

NextBoot ==
    \/ RunPreCheck
    \/ RunMessageSystemInit
    \/ RunStartState
    \/ RunGo
    \/ connectionInitHandle
    \/ initFinishSend
    \/ initFinishStart
    \/ RunInitFinish
    \/ RunMessageReady
    \/ adapterPush

SpecBoot == Init /\ [][NextBoot]_vars

\* ------------------------------------------------------- deadlock watchdog
\* variant of deadlineExceeded: the watchdog goroutine does not look at the error
deadlineAny(err) == TRUE

\* errors.Is(ctx.Err(), context.DeadlineExceeded)
deadlineExceeded(err) == err = "DeadlineExceeded"

\* a producer pushes a message whose handler will run for d ticks
watchPush(d) ==
    /\ wd.n < MaxWatched
    /\ wd' = [wd EXCEPT !.n = @ + 1, !.dur[wd.n + 1] = d, !.buf = Append(@, wd.n + 1)]
    /\ UNCHANGED <<srvVars, wl, old, rc, oa, boot, gf, extVars>>

\* the worker takes the head of the queue, a message that is not async;
\* dispatchMessage creates the context with timeout deadlockDetect, starts the
\* watchdog goroutine and calls the handler
watchDispatch ==
    /\ wd.cur = Nil
    /\ wd.buf # <<>>
    /\ ~wd.async[Head(wd.buf)]
    /\ LET i == Head(wd.buf)
       IN wd' = [wd EXCEPT !.buf = Tail(@), !.cur = i, !.elapsed = 0,
                          !.ctx[i] = "armed", !.watch[i] = "waiting",
                          !.order = Append(@, i)]
    /\ UNCHANGED <<srvVars, wl, old, rc, oa, boot, gf, extVars>>

\* one tick passes while the handler runs; the timer of the context does not
\* fire late and the handler does not run longer than its duration
watchTick ==
    /\ wd.cur # Nil
    /\ wd.elapsed < wd.dur[wd.cur]
    /\ ~(wd.ctx[wd.cur] = "armed" /\ wd.elapsed >= deadlockDetect)
    /\ wd' = [wd EXCEPT !.elapsed = @ + 1]
    /\ UNCHANGED <<srvVars, wl, old, rc, oa, boot, gf, extVars>>

\* the timer of the context fires: ctx.Err() is DeadlineExceeded, Done is closed
watchExpire ==
    /\ wd.cur # Nil
    /\ wd.ctx[wd.cur] = "armed"
    /\ wd.elapsed >= deadlockDetect
    /\ wd' = [wd EXCEPT !.ctx[wd.cur] = "DeadlineExceeded"]
    /\ UNCHANGED <<srvVars, wl, old, rc, oa, boot, gf, extVars>>

\* the handler returns (or panics); the deferred function calls cancel, which
\* sets Canceled unless the context is done already
watchReturn ==
    /\ wd.cur # Nil
    /\ wd.elapsed = wd.dur[wd.cur]
    /\ wd' = [wd EXCEPT !.ctx[wd.cur] = IF @ = "armed" THEN "Canceled" ELSE @,
                        !.ran[wd.cur] = wd.elapsed,
                        !.cur = Nil]
    /\ UNCHANGED <<srvVars, wl, old, rc, oa, boot, gf, extVars>>

\* the watchdog goroutine of message i receives from ctx.Done():
\* OnDeadlockDetectEvent(msg) when the error is DeadlineExceeded; it ends
watchdog(i) ==
    /\ wd.watch[i] = "waiting"
    /\ wd.ctx[i] \in {"Canceled", "DeadlineExceeded"}
    /\ wd' = [wd EXCEPT !.watch[i] = "exited",
                        !.fired[i] = IF deadlineExceeded(wd.ctx[i]) THEN @ + 1 ELSE @]
    /\ UNCHANGED <<srvVars, wl, old, rc, oa, boot, gf, extVars>>

NextWatch ==
    \/ \E d \in 1..MaxDuration : watchPush(d)
    \/ watchDispatch
    \/ watchTick
    \/ watchExpire
    \/ watchReturn
    \/ \E i \in WdIds : watchdog(i)

SpecWatch == Init /\ [][NextWatch]_vars

\* a producer pushes an async message whose caller will run for d ticks
watchPushAsync(d) ==
    /\ wd.n < MaxWatched
    /\ wd' = [wd EXCEPT !.n = @ + 1, !.dur[wd.n + 1] = d, !.async[wd.n + 1] = TRUE,
                        !.buf = Append(@, wd.n + 1)]
    /\ UNCHANGED <<srvVars, wl, old, rc, oa, boot, gf, extVars>>

\* the worker takes the head of the queue, an async message; dispatchMessage
\* creates the context, starts the watchdog goroutine, submits the caller to
\* srv.ants and returns, and its deferred cancel() cancels the context
watchDispatchAsync ==
    /\ wd.cur = Nil
    /\ wd.buf # <<>>
    /\ wd.async[Head(wd.buf)]
    /\ LET i == Head(wd.buf)
       IN wd' = [wd EXCEPT !.buf = Tail(@), !.ctx[i] = "Canceled", !.watch[i] = "waiting",
                          !.pool = @ \cup {i}, !.order = Append(@, i)]
    /\ UNCHANGED <<srvVars, wl, old, rc, oa, boot, gf, extVars>>

\* one tick passes while the caller of async message i runs in the pool
watchPoolTick(i) ==
    /\ i \in wd.pool
    /\ wd.pel[i] < wd.dur[i]
    /\ wd' = [wd EXCEPT !.pel[i] = @ + 1]
    /\ UNCHANGED <<srvVars, wl, old, rc, oa, boot, gf, extVars>>

\* the caller of async message i returns (or panics); the deferred function of
\* the pool task calls cancel, which changes nothing on a context that is done
watchPoolReturn(i) ==
    /\ i \in wd.pool
    /\ wd.pel[i] = wd.dur[i]
    /\ wd' = [wd EXCEPT !.ctx[i] = IF @ = "armed" THEN "Canceled" ELSE @,
                        !.ran[i] = wd.pel[i],
                        !.pool = @ \ {i}]
    /\ UNCHANGED <<srvVars, wl, old, rc, oa, boot, gf, extVars>>

NextWatchAsync ==
    \/ NextWatch
    \/ \E d \in 1..MaxDuration : watchPushAsync(d)
    \/ watchDispatchAsync
    \/ \E i \in WdIds : watchPoolTick(i)
    \/ \E i \in WdIds : watchPoolReturn(i)

SpecWatchAsync == Init /\ [][NextWatchAsync]_vars

\* ---------------------------------------------------- message statistics
\* the ticker goroutine of startMessageStatistics: a new counter is put in
\* front and the slice is cut to the limit
statisticsRotate ==
    /\ ~ms.locked
    /\ ms.rot < MaxRotations
    /\ LET r == <<0>> \o ms.ring
       IN ms' = [ms EXCEPT !.ring = IF Len(r) > messageStatisticsLimit
                                    THEN SubSeq(r, 1, messageStatisticsLimit) ELSE r,
                           !.since = 0, !.rot = @ + 1]
    /\ UNCHANGED <<coreVars, mx, v2, lk>>

\* Server.hitMessageStatistics, statistics on
hitMessageStatistics ==
    /\ ~ms.locked
    /\ ms.hits < MaxHits
    /\ ms' = [ms EXCEPT !.ring[1] = @ + 1, !.since = @ + 1, !.hits = @ + 1]
    /\ UNCHANGED <<coreVars, mx, v2, lk>>

\* Server.GetDurationMessageCountByOffset: an index out of range panics with
\* the lock held
GetDurationMessageCountByOffset(offset) ==
    /\ ~ms.locked
    /\ IF offset >= Len(ms.ring) - 1
       THEN ms' = [ms EXCEPT !.ret = 0, !.panic = FALSE]
       ELSE IF offset < 0
            THEN ms' = [ms EXCEPT !.panic = TRUE, !.locked = TRUE]
            ELSE ms' = [ms EXCEPT !.ret = ms.ring[offset + 1], !.panic = FALSE]
    /\ UNCHANGED <<coreVars, mx, v2, lk>>

\* Server.GetDurationMessageCount
GetDurationMessageCount == GetDurationMessageCountByOffset(0)

NextStatistics ==
    \/ statisticsRotate
    \/ hitMessageStatistics
    \/ \E offset \in Offsets : GetDurationMessageCountByOffset(offset)
    \/ GetDurationMessageCount

SpecStatistics == Init /\ [][NextStatistics]_vars

\* ------------------------------------------------------- gateway framing
\* a non-negative integer in decimal digits
RECURSIVE Digits(_)
Digits(n) == IF n < 10 THEN <<48 + n>> ELSE Append(Digits(n \div 10), 48 + (n % 10))

\* a JSON string body: the quote and the backslash are escaped
RECURSIVE Escape(_)
Escape(str) ==
    IF str = <<>> THEN <<>>
    ELSE (IF Head(str) \in {34, 92} THEN <<92, Head(str)>> ELSE <<Head(str)>>)
             \o Escape(Tail(str))

\* the character of the base64 alphabet for the 6-bit value v
B64Char(v) ==
    IF v < 26 THEN 65 + v
    ELSE IF v < 52 THEN 97 + (v - 26)
    ELSE IF v < 62 THEN 48 + (v - 52)
    ELSE IF v = 62 THEN 43 ELSE 47

\* variant of Base64: the payload bytes are written as they are
Base64Raw(d) == d

\* standard base64 with padding, as encoding/json writes a []byte
RECURSIVE Base64(_)
Base64(d) ==
    IF d = <<>> THEN <<>>
    ELSE IF Len(d) = 1
    THEN <<B64Char(d[1] \div 4), B64Char((d[1] % 4) * 16), 61, 61>>
    ELSE IF Len(d) = 2
    THEN <<B64Char(d[1] \div 4), B64Char((d[1] % 4) * 16 + d[2] \div 16),
           B64Char((d[2] % 16) * 4), 61>>
    ELSE <<B64Char(d[1] \div 4), B64Char((d[1] % 4) * 16 + d[2] \div 16),
           B64Char((d[2] % 16) * 4 + d[3] \div 64), B64Char(d[3] % 64)>>
             \o Base64(SubSeq(d, 4, Len(d)))

\* super.MarshalJSON(&gp): {"C":"..","WT":..,"D":"..","T":..}; a nil payload
\* is written as null
MarshalJSON(gp) ==
    <<123, 34, 67, 34, 58, 34>> \o Escape(gp.C) \o <<34>>
        \o <<44, 34, 87, 84, 34, 58>> \o Digits(gp.WT)
        \o <<44, 34, 68, 34, 58>>
        \o (IF gp.D = <<>> THEN <<110, 117, 108, 108>> ELSE <<34>> \o Base64(gp.D) \o <<34>>)
        \o <<44, 34, 84, 34, 58>> \o Digits(gp.T)
        \o <<125>>

\* packet.Data = append(pd, 0xff)
frame(gp) == Append(MarshalJSON(gp), 255)

\* the receiving side ----------------------------------------------------
\* s holds lit at position i
Expect(s, i, lit) == i + Len(lit) - 1 <= Len(s) /\ SubSeq(s, i, i + Len(lit) - 1) = lit

\* reads a JSON string body from position i up to its closing quote:
\* the unescaped bytes and the position after the quote (0: malformed)
RECURSIVE ReadString(_, _, _)
ReadString(s, i, acc) ==
    IF i > Len(s) THEN [val |-> acc, next |-> 0]
    ELSE IF s[i] = 34 THEN [val |-> acc, next |-> i + 1]
    ELSE IF s[i] = 92
    THEN (IF i + 1 > Len(s) THEN [val |-> acc, next |-> 0]
          ELSE ReadString(s, i + 2, Append(acc, s[i + 1])))
    ELSE ReadString(s, i + 1, Append(acc, s[i]))

\* reads decimal digits from position i: the number and the position after it
RECURSIVE ReadDigits(_, _, _)
ReadDigits(s, i, acc) ==
    IF i <= Len(s) /\ s[i] \in 48..57
    THEN ReadDigits(s, i + 1, acc * 10 + (s[i] - 48))
    ELSE [val |-> acc, next |-> i]

\* the 6-bit value of a base64 character
B64Value(c) == CHOOSE v \in 0..63 : B64Char(v) = c

\* base64 decoding
RECURSIVE Base64Decode(_)
Base64Decode(cs) ==
    IF Len(cs) < 4 THEN <<>>
    ELSE LET a == B64Value(cs[1])
             b == B64Value(cs[2])
         IN IF cs[3] = 61 THEN <<a * 4 + b \div 16>>
            ELSE LET c == B64Value(cs[3])
                 IN IF cs[4] = 61 THEN <<a * 4 + b \div 16, (b % 16) * 16 + c \div 4>>
                    ELSE <<a * 4 + b \div 16, (b % 16) * 16 + c \div 4,
                           (c % 4) * 64 + B64Value(cs[4])>>
                             \o Base64Decode(SubSeq(cs, 5, Len(cs)))

\* the payload field from position i: null, or a base64 string
ReadData(s, i) ==
    IF Expect(s, i, <<110, 117, 108, 108>>) THEN [val |-> <<>>, next |-> i + 4]
    ELSE IF i <= Len(s) /\ s[i] = 34
    THEN LET r == ReadString(s, i + 1, <<>>)
         IN [val |-> Base64Decode(r.val), next |-> r.next]
    ELSE [val |-> <<>>, next |-> 0]

\* the JSON object is parsed back into a GP value; ok is FALSE when malformed
UnmarshalJSON(s) ==
    LET c == IF Expect(s, 1, <<123, 34, 67, 34, 58, 34>>)
             THEN ReadString(s, 7, <<>>) ELSE [val |-> <<>>, next |-> 0]
        w == IF c.next # 0 /\ Expect(s, c.next, <<44, 34, 87, 84, 34, 58>>)
             THEN ReadDigits(s, c.next + 6, 0) ELSE [val |-> 0, next |-> 0]
        d == IF w.next # 0 /\ Expect(s, w.next, <<44, 34, 68, 34, 58>>)
             THEN ReadData(s, w.next + 5) ELSE [val |-> <<>>, next |-> 0]
        t == IF d.next # 0 /\ Expect(s, d.next, <<44, 34, 84, 34, 58>>)
             THEN ReadDigits(s, d.next + 5, 0) ELSE [val |-> 0, next |-> 0]
    IN [ok |-> t.next # 0 /\ t.next = Len(s) /\ s[t.next] = 125,
        gp |-> GP(c.val, w.val, d.val, t.val)]

\* Write on the gateway connection for origin connection c: slf.gw(packet)
\* builds the GP value, serializes it, appends 0xff and calls conn.Write
gw(c, wt, d, t) ==
    /\ Len(gf.sent) < MaxFrames
    /\ gf' = [gf EXCEPT !.sent = Append(@, GP(c, wt, d, t)),
                        !.up = Append(@, frame(GP(c, wt, d, t))),
                        !.frames = Append(@, frame(GP(c, wt, d, t)))]
    /\ UNCHANGED <<srvVars, wl, old, rc, oa, boot, wd, extVars>>

\* Gateway.onConnectionReceivePacket: the same frame with T left zero,
\* written to the endpoint
onConnectionReceivePacket(c, wt, d) ==
    /\ Len(gf.sent) < MaxFrames
    /\ gf' = [gf EXCEPT !.sent = Append(@, GP(c, wt, d, 0)),
                        !.up = Append(@, frame(GP(c, wt, d, 0))),
                        !.frames = Append(@, frame(GP(c, wt, d, 0)))]
    /\ UNCHANGED <<srvVars, wl, old, rc, oa, boot, wd, extVars>>

\* the receiving side reads a packet, strips its last byte and parses the rest
gatewayReceive ==
    /\ gf.up # <<>>
    /\ LET f == Head(gf.up)
       IN gf' = [gf EXCEPT !.up = Tail(@),
                          !.parsed = Append(@, UnmarshalJSON(SubSeq(f, 1, Len(f) - 1)))]
    /\ UNCHANGED <<srvVars, wl, old, rc, oa, boot, wd, extVars>>

NextGateway ==
    \/ \E c \in ConnIds, wt \in WebsocketTypes, d \in Payloads(MaxData), t \in Times :
           gw(c, wt, d, t)
    \/ \E c \in ConnIds, wt \in WebsocketTypes, d \in Payloads(MaxData) :
           onConnectionReceivePacket(c, wt, d)
    \/ gatewayReceive

SpecGateway == Init /\ [][NextGateway]_vars

\* ------------------------------------------------------------ Conn.Reuse
\* Write on connection x, first part, outside the mutex: slf.packetPool == nil
\* returns
WriteCheck(x, p) ==
    /\ rc.wr[x].pc = "idle"
    /\ rc.n < MaxReuseWrites
    /\ p = rc.n + 1
    /\ rc' = IF rc.conn[x].pool = Nil
             THEN [rc EXCEPT !.n = p, !.lost = @ \cup {p},
                             !.sawNil = @ \/ (x = "a" /\ rc.reuse = "copy")]
             ELSE [rc EXCEPT !.n = p, !.wr[x] = [pc |-> "get", p |-> p, got |-> Nil]]
    /\ UNCHANGED <<srvVars, wl, old, auxVars>>

\* Write, second part, outside the mutex: cp := slf.packetPool.Get() reads the
\* field again; on a nil pool the call panics
WriteGet(x) ==
    /\ rc.wr[x].pc = "get"
    /\ rc' = IF rc.conn[x].pool = Nil
             THEN [rc EXCEPT !.wr[x] = NoWrite, !.lost = @ \cup {rc.wr[x].p},
                             !.crashed = TRUE,
                             !.sawNil = @ \/ (x = "a" /\ rc.reuse = "copy")]
             ELSE [rc EXCEPT !.wr[x].pc = "append", !.wr[x].got = rc.conn[x].pool]
    /\ UNCHANGED <<srvVars, wl, old, auxVars>>

\* Write, third part, under the mutex: slf.packets = append(slf.packets, cp)
WriteAppend(x) ==
    /\ rc.wr[x].pc = "append"
    /\ rc.lock[x] = ""
    /\ rc' = [rc EXCEPT !.conn[x].packets = Append(@, rc.wr[x].p), !.wr[x] = NoWrite]
    /\ UNCHANGED <<srvVars, wl, old, auxVars>>

\* a.Reuse(b): slf.mutex.Lock()
ReuseLockSelf ==
    /\ rc.reuse = "idle"
    /\ rc.lock["a"] = ""
    /\ rc' = [rc EXCEPT !.lock["a"] = "reuse", !.reuse = "lock"]
    /\ UNCHANGED <<srvVars, wl, old, auxVars>>

\* a.Reuse(b): conn.mutex.Lock(); from here on both mutexes are held
ReuseLockOther ==
    /\ rc.reuse = "lock"
    /\ rc.lock["b"] = ""
    /\ rc' = [rc EXCEPT !.lock["b"] = "reuse", !.reuse = "close", !.atCall = rc.conn["b"]]
    /\ UNCHANGED <<srvVars, wl, old, auxVars>>

\* a.Reuse(b): slf.Close()
ReuseClose ==
    /\ rc.reuse = "close"
    /\ rc' = [rc EXCEPT !.hOpen[rc.conn["a"].h] = FALSE,
                        !.poolOpen[rc.conn["a"].pool] = FALSE,
                        !.conn["a"].pool = Nil,
                        !.conn["a"].packets = <<>>,
                        !.reuse = "copy"]
    /\ UNCHANGED <<srvVars, wl, old, auxVars>>

\* a.Reuse(b): the fields are copied, the deferred function unlocks
ReuseCopy ==
    /\ rc.reuse = "copy"
    /\ rc' = [rc EXCEPT !.conn["a"] = rc.conn["b"],
                        !.lock = [x \in RConns |-> ""],
                        !.reuse = "done"]
    /\ UNCHANGED <<srvVars, wl, old, auxVars>>

NextReuse ==
    \/ \E x \in RConns, p \in 1..MaxReuseWrites : WriteCheck(x, p)
    \/ \E x \in RConns : WriteGet(x)
    \/ \E x \in RConns : WriteAppend(x)
    \/ ReuseLockSelf
    \/ ReuseLockOther
    \/ ReuseClose
    \/ ReuseCopy

SpecReuse == Init /\ [][NextReuse]_vars

\* ------------------------------------------------- the connection mutex
\* Conn.Write on x up to slf.mutex.Lock(): it returns when packetPool is nil
mutexWrite(x) ==
    /\ mx.wr[x] = "idle"
    /\ mx.writes < MaxMutexWrites
    /\ mx' = IF mx.pool[x]
             THEN [mx EXCEPT !.writes = @ + 1, !.wr[x] = "lock"]
             ELSE [mx EXCEPT !.writes = @ + 1]
    /\ UNCHANGED <<coreVars, ms, v2, lk>>

\* Conn.Write on x: Lock, append, Unlock; it returns
mutexWriteAppend(x) ==
    /\ mx.wr[x] = "lock"
    /\ mx.mutex[x] = ""
    /\ mx' = [mx EXCEPT !.packets[x] = @ + 1, !.wr[x] = "idle"]
    /\ UNCHANGED <<coreVars, ms, v2, lk>>

\* Conn.Close on x, which takes no mutex
mutexClose(x) ==
    /\ mx.closes < MaxMutexCloses
    /\ mx' = [mx EXCEPT !.closes = @ + 1, !.pool[x] = FALSE, !.packets[x] = 0]
    /\ UNCHANGED <<coreVars, ms, v2, lk>>

\* writeLoop of x at the top of its loop: Lock; it returns when packetPool is
\* nil, without Unlock; otherwise it takes the batch, clears it and unlocks (an
\* empty batch is polled again)
mutexWriteLoop(x) ==
    /\ mx.loop[x] = "top"
    /\ mx.mutex[x] = ""
    /\ IF ~mx.pool[x]
       THEN mx' = [mx EXCEPT !.mutex[x] = "loop", !.loop[x] = "done"]
       ELSE /\ mx.packets[x] > 0
            /\ mx' = [mx EXCEPT !.packets[x] = 0, !.loop[x] = "send"]
    /\ UNCHANGED <<coreVars, ms, v2, lk>>

\* writeLoop of x: the batch goes to the transport, outside the mutex; a
\* transport error or a nil packetPool panics, the recovery closes the
\* connection and the loop returns
mutexWriteLoopSend(x, err) ==
    /\ mx.loop[x] = "send"
    /\ mx' = IF err \/ ~mx.pool[x]
             THEN [mx EXCEPT !.pool[x] = FALSE, !.packets[x] = 0, !.loop[x] = "done"]
             ELSE [mx EXCEPT !.loop[x] = "top"]
    /\ UNCHANGED <<coreVars, ms, v2, lk>>

\* goroutine g calls x.Reuse(y)
mutexReuse(g, x, y) ==
    /\ mx.ru[g].pc = "idle"
    /\ mx' = [mx EXCEPT !.ru[g] = [pc |-> "self", x |-> x, y |-> y]]
    /\ UNCHANGED <<coreVars, ms, v2, lk>>

\* x.Reuse(y): slf.mutex.Lock()
mutexReuseLockSelf(g) ==
    /\ mx.ru[g].pc = "self"
    /\ mx.mutex[mx.ru[g].x] = ""
    /\ mx' = [mx EXCEPT !.mutex[mx.ru[g].x] = g, !.ru[g].pc = "other"]
    /\ UNCHANGED <<coreVars, ms, v2, lk>>

\* x.Reuse(y): conn.mutex.Lock()
mutexReuseLockOther(g) ==
    /\ mx.ru[g].pc = "other"
    /\ mx.mutex[mx.ru[g].y] = ""
    /\ mx' = [mx EXCEPT !.mutex[mx.ru[g].y] = g, !.ru[g].pc = "body"]
    /\ UNCHANGED <<coreVars, ms, v2, lk>>

\* x.Reuse(y): slf.Close(), the fields of y are copied, the deferred function
\* unlocks both mutexes; it returns
mutexReuseCopy(g) ==
    /\ mx.ru[g].pc = "body"
    /\ LET x == mx.ru[g].x
           y == mx.ru[g].y
       IN mx' = [mx EXCEPT !.pool[x] = mx.pool[y], !.packets[x] = mx.packets[y],
                           !.mutex = [z \in RConns |-> IF z \in {x, y} THEN "" ELSE @[z]],
                           !.ru[g].pc = "done"]
    /\ UNCHANGED <<coreVars, ms, v2, lk>>

NextMutex ==
    \/ \E x \in RConns : mutexWrite(x)
    \/ \E x \in RConns : mutexWriteAppend(x)
    \/ \E x \in RConns : mutexClose(x)
    \/ \E x \in RConns : mutexWriteLoop(x)
    \/ \E x \in RConns, err \in BOOLEAN : mutexWriteLoopSend(x, err)
    \/ \E g \in Reusers, x, y \in RConns : mutexReuse(g, x, y)
    \/ \E g \in Reusers : mutexReuseLockSelf(g)
    \/ \E g \in Reusers : mutexReuseLockOther(g)
    \/ \E g \in Reusers : mutexReuseCopy(g)

SpecMutex == Init /\ [][NextMutex]_vars

\* ------------------------------------------------------- the v2 server
\* Queue.WaitAdd(ident, delta)
WaitAdd(w, ident, delta) == [w EXCEPT ![ident] = @ + delta]

\* the reactor is made; reactor.SysIdent is sys
NewReactor(sys) ==
    /\ v2.sys = "unset"
    /\ v2' = [v2 EXCEPT !.sys = sys]
    /\ UNCHANGED <<coreVars, ms, mx, lk>>

\* asyncMessage.Execute: the submitting message is dispatched to s.ident; the
\* beforeHandler adds 1 to the wait-counter of reactor.SysIdent
asyncExecute(ident, cb) ==
    /\ v2.sys # "unset"
    /\ v2.n < MaxAsync
    /\ LET i == v2.n + 1
       IN v2' = [v2 EXCEPT !.n = i, !.ident[i] = ident, !.cb[i] = cb,
                           !.wait = WaitAdd(@, v2.sys, 1), !.pc[i] = "queued"]
    /\ UNCHANGED <<coreVars, ms, mx, lk>>

\* the submitting message runs: srv.ants.Submit
asyncSubmit(i) ==
    /\ v2.pc[i] = "queued"
    /\ v2' = [v2 EXCEPT !.pc[i] = "pool"]
    /\ UNCHANGED <<coreVars, ms, mx, lk>>

\* the pool task: s.handler runs; a panic is recovered by the deferred
\* function and the task ends; otherwise the callback message is dispatched to
\* s.ident
asyncHandler(i, panics) ==
    /\ v2.pc[i] = "pool"
    /\ v2' = IF panics THEN [v2 EXCEPT !.pc[i] = "lost"]
             ELSE [v2 EXCEPT !.pc[i] = "callback", !.cbOn[i] = v2.ident[i]]
    /\ UNCHANGED <<coreVars, ms, mx, lk>>

\* the callback message runs: s.callback when it is not nil; the deferred
\* function, also after a panic, adds -1 to the wait-counter of s.ident
asyncCallback(i, panics) ==
    /\ v2.pc[i] = "callback"
    /\ panics => v2.cb[i]
    /\ v2' = [v2 EXCEPT !.called[i] = IF v2.cb[i] THEN @ + 1 ELSE @,
                        !.wait = WaitAdd(@, v2.ident[i], 0 - 1),
                        !.pc[i] = "done"]
    /\ UNCHANGED <<coreVars, ms, mx, lk>>

NextReactor ==
    \/ \E sys \in SysIdents : NewReactor(sys)
    \/ \E ident \in Idents, cb \in BOOLEAN : asyncExecute(ident, cb)
    \/ \E i \in AsyncIds : asyncSubmit(i)
    \/ \E i \in AsyncIds, panics \in BOOLEAN : asyncHandler(i, panics)
    \/ \E i \in AsyncIds, panics \in BOOLEAN : asyncCallback(i, panics)

SpecReactor == Init /\ [][NextReactor]_vars

\* ------------------------------------------------------ the registry lock
\* goroutine g calls op; inner is what the handler of the shunt event calls
\* when op fires one
registryCall(g, op, inner) ==
    /\ lk.pc[g] = "idle"
    /\ op \in ReadOps => inner = "none"
    /\ lk' = [lk EXCEPT !.op[g] = op, !.inner[g] = inner, !.pc[g] = "lock"]
    /\ UNCHANGED <<coreVars, ms, mx, v2>>

\* sync.RWMutex: Lock returns when nobody holds the lock, RLock when nobody
\* holds it for writing
lockFree(l, o) == IF o \in WriteOps THEN l.writer = "" /\ l.readers = {} ELSE l.writer = ""
lockTake(l, g, o) ==
    IF o \in WriteOps THEN [l EXCEPT !.writer = g] ELSE [l EXCEPT !.readers = @ \cup {g}]
lockGive(l, g, o) ==
    IF o \in WriteOps THEN [l EXCEPT !.writer = ""] ELSE [l EXCEPT !.readers = @ \ {g}]

\* srv.dispatcherLock.Lock() / RLock() of the operation g is in
dispatcherLock(g) ==
    /\ lk.pc[g] \in {"lock", "lockIn"}
    /\ LET o == IF lk.pc[g] = "lock" THEN lk.op[g] ELSE lk.inner[g]
       IN /\ lockFree(lk, o)
          /\ lk' = [lockTake(lk, g, o) EXCEPT !.pc[g] = IF lk.pc[g] = "lock" THEN "held"
                                                       ELSE "heldIn"]
    /\ UNCHANGED <<coreVars, ms, mx, v2>>

\* OnShuntChannelCreatedEvent / OnShuntChannelClosedEvent under the lock: the
\* handler runs on the calling goroutine and calls its operation
shuntChannelEvent(g) ==
    /\ lk.pc[g] = "held"
    /\ lk.inner[g] # "none"
    /\ lk' = [lk EXCEPT !.pc[g] = "lockIn"]
    /\ UNCHANGED <<coreVars, ms, mx, v2>>

\* the operation g is in unlocks and returns: the handler's operation to the
\* handler, the operation g called to its caller
dispatcherUnlock(g) ==
    /\ \/ lk.pc[g] = "heldIn"
       \/ lk.pc[g] = "held" /\ lk.inner[g] = "none"
    /\ lk' = IF lk.pc[g] = "heldIn"
             THEN [lockGive(lk, g, lk.inner[g]) EXCEPT !.pc[g] = "held", !.inner[g] = "none"]
             ELSE [lockGive(lk, g, lk.op[g]) EXCEPT !.pc[g] = "idle"]
    /\ UNCHANGED <<coreVars, ms, mx, v2>>

NextLock ==
    \/ \E g \in Goroutines, op \in WriteOps \cup ReadOps,
          inner \in WriteOps \cup ReadOps \cup {"none"} : registryCall(g, op, inner)
    \/ \E g \in Goroutines : dispatcherLock(g)
    \/ \E g \in Goroutines : shuntChannelEvent(g)
    \/ \E g \in Goroutines : dispatcherUnlock(g)

SpecLock == Init /\ [][NextLock]_vars

\* ------------------------------------------------------- reading the history
Started(id) == execBy[id] # Nil
Executing(id) == \E d \in DispIds : \E m \in disps[d].cur : m.id = id
Finished(id) == Started(id) /\ ~Executing(id)
\* ids of the messages external producers pushed
ExternalIds == 1..MaxCalls
\* nothing is queued, running or being pushed
Quiescent ==
    /\ pusher = <<>>
    /\ pool = {}
    /\ \A d \in DispIds : disps[d].buf = <<>> /\ disps[d].cur = {}

CallbackResync ==
    \A id \in ExternalIds :
        Started(CallbackId(id)) => execBy[CallbackId(id)] = execBy[id]

\* ---------------------------------------------------------------- C3
\* the unique-async message id has run its course: its callback has been executed,
\* or its pool task ended without building a callback message
UniqueEnded(id) ==
    \/ CallbackId(id) \in over
    \/ id \in over /\ msgs[CallbackId(id)] = NoMessage
UniqueInFlight(d, k) ==
    {id \in ExternalIds : uniqOn[id] = d /\ msgs[id].name = k /\ ~UniqueEnded(id)}

\* C3: unique coalescing. On every open dispatcher D and for every key k, at
\* most one unique-async message with key k accepted on D is in flight, and
\* when none is in flight the key is not held, so that the next one is accepted.
UniqueCoalescing ==
    \A d \in DispIds : \A k \in Keys :
        ~disps[d].closed =>
            /\ Cardinality(UniqueInFlight(d, k)) <= 1
            /\ UniqueInFlight(d, k) = {} => k \notin disps[d].uniques

\* ---------------------------------------------------------------- C4
\* C4: no lost decrements. For every unique-async message whose key was set on
\* dispatcher D, antiUnique is called at most once and only on D, and once
\* nothing is queued, running or being pushed, no open dispatcher holds a key.
NoLostDecrements ==
    /\ \A id \in ExternalIds :
         /\ Len(antiOn[id]) <= 1
         /\ \A i \in 1..Len(antiOn[id]) : antiOn[id][i] = uniqOn[id]
    /\ Quiescent => \A d \in DispIds : ~disps[d].closed => disps[d].uniques = {}

\* ---------------------------------------------------------------- C5
\* C5: bounded in-flight. The message counter equals the number of messages
\* enqueued minus the number whose execution has completed, it is never
\* negative, and it is zero once shutdown has returned.
BoundedInFlight ==
    /\ messageCounter = Cardinality({id \in MsgIds : putOn[id] # Nil}) - Cardinality(over)
    /\ messageCounter >= 0
    /\ shut = "done" => messageCounter = 0

\* ---------------------------------------------------------------- C6
\* the dispatcher that serves a connection bound to b (Nil: no shunt, hence system)
Serving(b) == IF b = Nil THEN systemDispatcher ELSE b

\* C6: shunt migration preserves order. When UseShunt moves a connection from
\* N1 to another dispatcher N2, a message of the connection enqueued on N2 after
\* the migration does not begin before every message of the connection enqueued
\* on N1 before the migration has begun.
MigrationOrder ==
    \A c \in Conns : \A e \in 1..(Len(migr[c]) - 1) :
        LET n1 == Serving(migr[c][e])
            n2 == migr[c][e + 1]
        IN (n2 # Nil /\ n1 # n2 /\ disps[n1].name # disps[n2].name) =>
            \A m1, m2 \in MsgIds :
                (/\ msgs[m1].conn = c /\ putOn[m1] = n1 /\ putEp[m1] = e
                 /\ msgs[m2].conn = c /\ putOn[m2] = n2 /\ putEp[m2] = e + 1
                 /\ Started(m2)) => Started(m1)

\* ---------------------------------------------------------------- C7
CountEvents(kind, name) == Cardinality({i \in DOMAIN events : events[i] = <<kind, name>>})
\* the dispatchers UseShunt created under this name
Shunts(name) == {d \in DispIds : d # systemDispatcher /\ disps[d].name = name}

\* C7: shunt events. While the server is not shutting down, ShuntChannelClosed
\* has been emitted with name n exactly once for every shunt named n that was
\* torn down, and ShuntChannelCreated with name n exactly once for every
\* dispatcher created for n.
ShuntEvents ==
    closed = 0 =>
        \A n \in ShuntNames :
            /\ CountEvents("closed", n) = Cardinality({d \in Shunts(n) : disps[d].closed})
            /\ CountEvents("created", n) = Cardinality(Shunts(n))

\* ---------------------------------------------------------------- C9
\* C9: registry consistency. Every connection in dispatcherMember[n] is bound
\* in currDispatcher to a dispatcher named n.
RegistryConsistency ==
    \A n \in ShuntNames : \A c \in dispatcherMember[n] :
        currDispatcher[c] # Nil /\ disps[currDispatcher[c]].name = n

\* a connection that left one shunt for another and is a member of the second
RegistryConsistencyWitness ==
    \E c \in Conns : \E n \in ShuntNames :
        /\ Len(migr[c]) >= 3
        /\ migr[c][Len(migr[c]) - 1] # Nil
        /\ c \in dispatcherMember[n]
        /\ disps[migr[c][Len(migr[c]) - 1]].name # n

\* ---------------------------------------------------------------- C10
\* C10: system shunt permanence. From the end of onMessageSystemInit until
\* shutdown begins the system dispatcher is open, and it is the only
\* dispatcher named "system".
SystemPermanence ==
    (systemDispatcher # Nil /\ shut = "idle") =>
        /\ ~disps[systemDispatcher].closed
        /\ {d \in DispIds : disps[d].name = serverSystemDispatcher} = {systemDispatcher}

\* ---------------------------------------------------------------- C8
\* C8: write-order preservation. The packets handed to the transport are the
\* packets written, in the order of the Write calls: a packet written later is
\* never handed over before a packet written earlier.
WriteOrder ==
    \A a, b \in DOMAIN wl.sent :
        (a < b /\ wl.sent[a] # NoPacket /\ wl.sent[b] # NoPacket) => wl.sent[a] <= wl.sent[b]

\* ---------------------------------------------------------------- C11
\* asynchronous work started from dispatcher d that has not resolved: a pool task
\* dispatched by d, or its callback message queued or running somewhere
Unresolved(d) ==
    \/ \E task \in pool : task.d = d
    \/ \E e \in DispIds :
         \/ \E i \in 1..Len(disps[e].buf) : disps[e].buf[i].from = d
         \/ \E m \in disps[e].cur : m.from = d

\* C11: dispatcher lifecycle. While the server is not shutting down, a step that
\* closes a non-system dispatcher is taken only when its member set is empty
\* and no asynchronous work started from it is unresolved.
DispatcherLifecycle ==
    [][\A d \in DispIds :
          (closed = 0 /\ d # systemDispatcher /\ ~disps[d].closed /\ disps'[d].closed)
              => (dispatcherMember'[disps[d].name] = {} /\ ~Unresolved(d))]_vars

\* ---------------------------------------------------------------- C12
\* C12: panic isolation. No panic raised while a worker executes a message,
\* the submission of an async message to the pool included, escapes
\* dispatchMessage.
PanicIsolation == ~crashed

\* ---------------------------------------------------------------- C14
\* a callback message is queued or running
CallbackPending ==
    \E e \in DispIds :
        \/ \E i \in 1..Len(disps[e].buf) : disps[e].buf[i].from # Nil
        \/ \E m \in disps[e].cur : m.from # Nil

\* when shutdown has returned the counter is zero and OnStop was fired once
ShutdownReturned ==
    shut = "done" => (messageCounter = 0 /\ CountEvents("stop", NoName) = 1)

\* shutdown leaves its wait phase only when no async caller is in the pool and
\* no callback message is queued or running
WaitPhase ==
    (shut = "waiting" /\ shut' = "teardown") => (pool = {} /\ ~CallbackPending)

\* the counter is above zero while a pool task is about to enqueue its callback
CounterHeld == \A task \in pool : task.pc = "put" => messageCounter > 0

\* C14: graceful shutdown. Shutdown passes its wait phase only when no async
\* caller is in the pool and no callback message is queued or running; the
\* counter is above zero while a pool task is about to enqueue its callback
\* message; at the step on which shutdown returns the counter is zero and
\* OnStop was fired exactly once.
GracefulShutdown ==
    [][/\ WaitPhase
       /\ CounterHeld
       /\ (shut # "done" /\ shut' = "done") => ShutdownReturned']_vars

\* ---------------------------------------------------------------- C16
\* the async messages with a callback that pushMessage enqueued
AcceptedAsync ==
    {id \in ExternalIds : msgs[id].t \in AsyncKinds /\ msgs[id].cb /\ putOn[id] # Nil}

\* once nothing is queued, running or being pushed, the caller of every accepted
\* async message has finished and every callback message enqueued has been executed
AsyncCompleted ==
    Quiescent =>
        \A id \in AcceptedAsync :
            /\ id \in over
            /\ putOn[CallbackId(id)] # Nil => CallbackId(id) \in over

\* C16: async two-phase completion. For an async message with a callback that
\* pushMessage accepted: the callback message begins only after the caller has
\* finished and carries the error the caller returned; a callback message that
\* OnMessageExecBefore let pass is enqueued; and in the end the caller has run
\* and the callback has been executed.
AsyncCompletion ==
    [][/\ \A id \in AcceptedAsync :
            Started(CallbackId(id)) =>
                /\ id \in over
                /\ \A d \in DispIds : \A m \in disps[d].cur :
                       m.id = CallbackId(id) => m.err = msgs[CallbackId(id)].err
       /\ \A task \in pool :
            (task.pc = "put" /\ task \notin pool') => putOn'[task.cbm.id] # Nil
       /\ AsyncCompleted']_vars

\* ---------------------------------------------------------------- C13
\* C13: shutdown idempotence. The effects of shutdown happen once: OnStop is
\* fired at most once, the started dispatcher is closed at most once, the close
\* channel receives at most one signal; and an invocation after the first
\* returns at once, so that two invocations are never inside shutdown together.
ShutdownIdempotence ==
    /\ old.onStop <= 1
    /\ old.closes <= 1
    /\ old.sends <= 1
    /\ ~(InShutdown(old.w) /\ InShutdown(old.r))

\* ---------------------------------------------------------------- C15
\* C15: an Error message with action Shutdown, executed by the system
\* dispatcher, runs shutdown to completion: while the worker that executes it
\* stands in shutdown's wait loop, only it can complete a message of the system
\* dispatcher, so the loop's exit condition (counter not above zero) must hold.
ErrorShutdownCompletes ==
    (old.cur.t = "Error" /\ old.cur.act = "Shutdown" /\ old.w = "wait")
        => old.counter <= 0

\* ---------------------------------------------------------------- C17
Count(x, seq) == Cardinality({k \in DOMAIN seq : seq[k] = x})

\* C17: write callback. On a connection that was not closed and had no
\* transport error, once the write loop has nothing left to send, the callback
\* of every packet written with a callback (directly or through a gateway
\* connection) was called exactly once, after the packet was handed to the
\* transport; and no callback is called twice.
WriteCallback ==
    /\ \A p \in wl.reqs : Count(p, wl.called) <= 1
    /\ \A p \in wl.reqs : Count(p, wl.called) = 1 => Count(p, wl.sent) >= 1
    /\ (wl.handle /\ wl.pc = "top" /\ wl.packets.len = 0)
           => \A p \in wl.reqs : Count(p, wl.called) = 1

CloseIdempotence ==
    /\ wl.closes >= 1 => (~wl.handle /\ ~wl.pool /\ wl.packets = NilSlice)
    /\ \A p \in wl.dropped :
          /\ Count(p, wl.sent) = 0
          /\ \A r \in DOMAIN wl.recs : wl.recs[r].packet # p

\* ---------------------------------------------------------------- C20
\* C20: Reuse. When a.Reuse(b) returns, a's previous transport handle is
\* closed and a's transport handle, packet pool and batch are those b had when
\* Reuse took the two mutexes; and no Write on a comes between the close and
\* the copy: none reads the nil pool of the closed a.
ReuseAtomic ==
    [][/\ (rc.reuse = "copy" /\ rc'.reuse = "done")
            => (rc'.conn["a"] = rc.atCall /\ ~rc'.hOpen[1])
       /\ ~rc'.sawNil]_vars

\* ---------------------------------------------------------------- C24
\* Server.GetConnCurrShunt
GetConnCurrShunt(conn) ==
    IF currDispatcher[conn] # Nil THEN disps[currDispatcher[conn]].name
    ELSE serverSystemDispatcher

\* C24: UseShunt(conn, name) called when the connection's current shunt is
\* name leaves the dispatcher map, the membership sets and the conn->dispatcher
\* map unchanged and emits no event.
UseShuntSameName ==
    [][\A conn \in Conns, name \in ShuntNames :
          (UseShunt(conn, name) /\ GetConnCurrShunt(conn) = name)
              => UNCHANGED <<dispatchers, dispatcherMember, currDispatcher, events>>]_vars

VetoDrops ==
    [][\A inp \in PushInputs :
          PushSelect(inp, TRUE)
              => /\ rel' = release(rel, nMsgs + 1)
                 /\ pusher' = <<>>
                 /\ UNCHANGED <<disps, messageCounter, putOn, uniqOn>>]_vars

\* a vetoed Shunt message: released, never enqueued
VetoDropsWitness ==
    \E id \in ExternalIds :
        /\ msgs[id].t = "Shunt"
        /\ rel[id] = 1
        /\ putOn[id] = Nil
        /\ pusher = <<>>

\* ---------------------------------------------------------------- C30
\* C30: unique key released on panic. For a unique-async message whose key was
\* set on a dispatcher that is still open: once its pool task has ended without
\* a callback message (the caller panicked, or there is no callback) or the
\* handler of its callback has ended (WorkerEnd: it returned, or it panicked and
\* was recovered), antiUnique has been called exactly once for the message, and
\* on the dispatcher that holds its key.
KeyReleasedOnPanic ==
    \A id \in ExternalIds :
        (/\ msgs[id].t \in UniqueKinds
         /\ uniqOn[id] # Nil
         /\ ~disps[uniqOn[id]].closed
         /\ UniqueEnded(id))
            => antiOn[id] = <<uniqOn[id]>>

\* ---------------------------------------------------------------- C23
\* the kinds the routing rule sends to the connection's dispatcher
ConnRouted ==
    {"Packet", "Shunt", "ShuntTicker", "ShuntAsync", "ShuntAsyncCallback",
     "UniqueShuntAsync", "UniqueShuntAsyncCallback"}
\* the other kinds pushMessage knows
SystemRouted ==
    {"System", "Ticker", "Async", "AsyncCallback", "UniqueAsync", "UniqueAsyncCallback"}
\* the dispatcher the routing rule names for message m
RouteOf(m) ==
    IF m.t \in ConnRouted /\ m.conn # NilConn /\ currDispatcher[m.conn] # Nil
    THEN currDispatcher[m.conn]
    ELSE systemDispatcher

MessageReleaseOnce ==
    \A i \in OaIds :
        /\ oa.rel[i] <= 1
        /\ oa.dec[i] <= 1
        /\ i \notin oa.early
        /\ i \in oa.live => oa.rel[i] = 1

\* ---------------------------------------------------------------- C28
\* C28: single consumer. Every dispatcher held in slf.dispatchers has had its
\* worker started: none is a dispatcher that pushMessage created with
\* useDispatcher and did not start.
SingleConsumer == ~old.spare

\* ---------------------------------------------------------------- C26
\* the positions of entry e in the log lg
Positions(lg, e) == {i \in DOMAIN lg : lg[i] = e}
\* every e1 of lg comes after some e0
After(lg, e0, e1) ==
    \A i \in Positions(lg, e1) : \E j \in Positions(lg, e0) : j < i

\* C26: startup ordering. In the log of a server's Run the message pool is
\* created and the system dispatcher's worker started before MessageReady,
\* MessageReady comes before StartFinish, and every push of the network
\* adapter comes after the pool and the system dispatcher were created.
StartupOrderOf(lg) ==
    /\ After(lg, "pool", "MessageReady")
    /\ After(lg, "start", "MessageReady")
    /\ After(lg, "MessageReady", "StartFinish")
    /\ After(lg, "pool", "push")
    /\ After(lg, "system", "push")
StartupOrder == StartupOrderOf(boot.log) /\ StartupOrderOf(boot.logOld)

\* ---------------------------------------------------------------- C22
\* C22: deadlock watchdog. OnDeadlockDetect fires at most once per message;
\* for a message whose handler runs longer than the window the context has
\* expired when the handler returns, and the watchdog goroutine has fired the
\* event once when it ends; a handler is never cut short (it returns after its
\* whole duration); the messages are begun in queue order, one after the other;
\* and a message that finishes before the window elapses never fires the event.
DeadlockWatchdog ==
    /\ \A i \in WdIds :
          /\ wd.fired[i] <= 1
          /\ (wd.dur[i] > deadlockDetect /\ wd.ran[i] # Nil)
                 => /\ wd.ctx[i] = "DeadlineExceeded"
                    /\ wd.watch[i] = "exited" => wd.fired[i] = 1
          /\ (wd.dur[i] > deadlockDetect /\ wd.ctx[i] = "DeadlineExceeded" /\ wd.ran[i] = Nil)
                 => wd.cur = i
          /\ wd.ran[i] # Nil => wd.ran[i] = wd.dur[i]
          /\ (wd.dur[i] < deadlockDetect /\ i <= wd.n) => wd.fired[i] = 0
    /\ \A k \in DOMAIN wd.order : wd.order[k] = k

\* the event has fired once for a message that ran longer than the window, and
\* the message queued behind it has run to its end, within the window, without one
DeadlockWatchdogWitness ==
    /\ wd.dur[1] > deadlockDetect
    /\ wd.fired[1] = 1
    /\ wd.ran[1] = wd.dur[1]
    /\ wd.dur[2] < deadlockDetect
    /\ wd.ran[2] = wd.dur[2]
    /\ wd.watch[2] = "exited"
    /\ wd.fired[2] = 0

\* ---------------------------------------------------------------- C21
\* C21: gateway re-framing. Every Write forwards exactly one packet; a packet
\* ends with the byte 0xFF and holds it nowhere else; and the packet without its
\* last byte parses as JSON into the C, WT and D (and T) it was built from.
GatewayRoundTrip ==
    /\ Len(gf.frames) = Len(gf.sent)
    /\ \A k \in DOMAIN gf.frames :
          LET f == gf.frames[k]
          IN /\ f[Len(f)] = 255
             /\ \A j \in 1..(Len(f) - 1) : f[j] # 255
    /\ \A k \in DOMAIN gf.parsed :
          /\ gf.parsed[k].ok
          /\ gf.parsed[k].gp = gf.sent[k]

\* a payload with the byte 0xFF and a padded base64 form, for a connection id
\* that needs escaping, has been forwarded and parsed
GatewayRoundTripWitness ==
    \E k \in DOMAIN gf.parsed :
        /\ gf.sent[k].C = <<97, 34, 92>>
        /\ gf.sent[k].D = <<1, 255>>
        /\ gf.sent[k].WT = 10
        /\ gf.parsed[k].gp.D = <<1, 255>>

\* ---------------------------------------------------------------- C31
\* C31: ReleaseShunt. For a connection bound to a dispatcher S whose name is not
\* "system", ReleaseShunt removes it from S's member set and from the
\* conn->dispatcher map, so that its messages are routed to the system
\* dispatcher; when the member set becomes empty S is closed, its name is no
\* longer registered and ShuntChannelClosed(S) is emitted, and S keeps the
\* messages queued on it and its worker can take them (a closed dispatcher
\* with a queued message and an idle worker can begin it); otherwise nothing
\* else changes. For a connection on no named shunt the call changes nothing.
ReleaseShuntEffect ==
    [][/\ \A conn \in Conns \cup {NilConn} :
             ReleaseShunt(conn) =>
                 LET d == IF conn = NilConn THEN Nil ELSE currDispatcher[conn]
                 IN IF d # Nil /\ disps[d].name # serverSystemDispatcher
                    THEN LET S == disps[d].name
                         IN /\ dispatcherMember' = [dispatcherMember EXCEPT ![S] = @ \ {conn}]
                            /\ currDispatcher' = [currDispatcher EXCEPT ![conn] = Nil]
                            /\ \A t \in ConnRouted :
                                  selectDispatcher(Message(1, t, conn, NoName, FALSE, "nil", Nil))'
                                      = systemDispatcher
                            /\ disps'[d].buf = disps[d].buf
                            /\ IF dispatcherMember'[S] = {}
                               THEN /\ disps'[d].closed
                                    /\ dispatchers'[S] = Nil
                                    /\ events' = Append(events, <<"closed", S>>)
                               ELSE UNCHANGED <<disps, dispatchers, events>>
                    ELSE UNCHANGED <<disps, dispatchers, dispatcherMember, currDispatcher, events>>
       /\ \A e \in DispIds :
             (disps[e].closed /\ disps[e].buf # <<>> /\ ~disps[e].busy /\ ~crashed)
                 => ENABLED WorkerBegin(e)]_vars

\* the last member has left a shunt that has a message queued: the shunt is
\* closed and unregistered and still holds the message
ReleaseShuntEffectWitness ==
    \E c \in Conns : \E i \in DOMAIN migr[c] :
        /\ i > 1
        /\ migr[c][i] = Nil
        /\ migr[c][i - 1] # Nil
        /\ disps[migr[c][i - 1]].closed
        /\ dispatchers[disps[migr[c][i - 1]].name] = Nil
        /\ currDispatcher[c] = Nil
        /\ disps[migr[c][i - 1]].buf # <<>>


\* ---------------------------------------------------------------- C32
\* C32: the step that completes shutdown leaves every dispatcher that was
\* generated, the named shunts and the system dispatcher, closed, and
\* srv.dispatchers empty.
ShutdownClosesAll ==
    [][ShutdownTeardown =>
          /\ \A d \in DispIds : disps'[d].closed
          /\ \A n \in ShuntNames : dispatchers'[n] = Nil]_vars


\* ---------------------------------------------------------------- C33
\* C33: a message of any kind, the async kinds included, that was still running
\* when the detection window had elapsed has had DeadlockDetect emitted for it
\* once its watchdog goroutine has ended.
WatchdogCoversAsync ==
    \A i \in WdIds :
        (wd.watch[i] = "exited" /\ (wd.cur = i \/ i \in wd.pool \/ wd.ran[i] # Nil)
            /\ (IF wd.ran[i] # Nil THEN wd.ran[i]
                ELSE IF wd.async[i] THEN wd.pel[i] ELSE wd.elapsed) > deadlockDetect)
            => wd.fired[i] = 1


\* ---------------------------------------------------------------- C34
\* C34: GetDurationMessageCount returns the number of hits since the last
\* rotation; GetDurationMessageCountByOffset(n) returns the count of the n-th
\* previous window when n is below the number of windows kept and 0 beyond, and
\* for a negative n what GetDurationMessageCount returns; the ring never holds
\* more windows than the limit.
StatisticsAccessors ==
    [][/\ GetDurationMessageCount => (~ms'.panic /\ ms'.ret = ms.since)
       /\ \A n \in Offsets :
             GetDurationMessageCountByOffset(n) =>
                 /\ ~ms'.panic
                 /\ ms'.ret = IF n < 0 THEN ms.since
                              ELSE IF n < Len(ms.ring) THEN ms.ring[n + 1] ELSE 0
       /\ Len(ms'.ring) <= messageStatisticsLimit]_vars


\* ---------------------------------------------------------------- C35
\* C35: the write loop holds the connection mutex on none of its exit paths,
\* so a Write that waits for the mutex never waits for a write loop that has
\* returned.
WriteNonBlocking ==
    \A x \in RConns :
        /\ mx.loop[x] = "done" => mx.mutex[x] # "loop"
        /\ mx.wr[x] = "lock" => ~(mx.mutex[x] = "loop" /\ mx.loop[x] = "done")


\* ---------------------------------------------------------------- C39
\* C39: x.Reuse(y) always returns: a Reuse call that waits for a mutex does not
\* wait for a write loop that has returned holding it, nor for a mutex it holds
\* itself, nor for a Reuse call that in turn waits for a mutex this call holds.
ReuseReturns ==
    \A g \in Reusers :
        mx.ru[g].pc \in {"self", "other"} =>
            LET h == mx.mutex[IF mx.ru[g].pc = "self" THEN mx.ru[g].x ELSE mx.ru[g].y]
            IN /\ h # "loop"
               /\ h # g
               /\ (h \in Reusers /\ mx.ru[h].pc = "other") => mx.mutex[mx.ru[h].y] # g


\* ---------------------------------------------------------------- C36
\* C36: the wait-counter of one ident is raised by executing an async message
\* and lowered for the same ident when its callback message has run, also when
\* the handler panicked: when no async message is in progress every ident's
\* wait-counter has its initial value, and a callback message was dispatched
\* to the ident of its async message.
WaitCounterBalance ==
    /\ (\A i \in AsyncIds : v2.pc[i] \in {"none", "done", "lost"})
           => \A id \in DOMAIN v2.wait : v2.wait[id] = 0
    /\ \A i \in AsyncIds : v2.pc[i] \in {"callback", "done"} => v2.cbOn[i] = v2.ident[i]


\* ---------------------------------------------------------------- C37
\* C37: no accepted message is lost: the step of pushMessage that raises the
\* counter for a message leaves that message in the queue of a dispatcher, and
\* when nothing is queued or running any more every message the counter was
\* raised for has been begun by a worker and the counter is back at zero.
NoAcceptedMessageLost ==
    [][/\ (PushPut /\ messageCounter' = messageCounter + 1)
              => \E d \in DispIds :
                     /\ Len(disps'[d].buf) = Len(disps[d].buf) + 1
                     /\ disps'[d].buf[Len(disps'[d].buf)].id = pusher[1].m.id
       /\ (Quiescent' /\ ~crashed')
              => /\ messageCounter' = 0
                 /\ \A id \in MsgIds : putOn'[id] # Nil => Started(id)']_vars


\* ---------------------------------------------------------------- C38
\* C38: the registry lock is never requested by the goroutine that holds it:
\* an operation called from a ShuntChannelCreated or ShuntChannelClosed handler
\* does not wait for a lock its own goroutine holds for writing.
RegistryLockNotReentered ==
    \A g \in Goroutines : lk.pc[g] = "lockIn" => lk.writer # g


\* ---------------------------------------------------------------- C40
\* C40: on a connection that was never closed and whose transport returned no
\* error, every packet accepted by Write or WriteWithCallback is handed to the
\* transport exactly once: nothing that was not written is sent, no packet is
\* sent twice, and when the write loop has drained the batch every packet
\* written has been sent.
ExactlyOnceDelivery ==
    (wl.handle /\ ~wl.failed /\ wl.closes = 0 /\ ~wl.gwClosed) =>
        /\ \A k \in DOMAIN wl.sent : wl.sent[k] \in 1..wl.n
        /\ \A p \in 1..wl.n : Count(p, wl.sent) <= 1
        /\ (wl.pc = "top" /\ wl.packets.len = 0)
               => \A p \in 1..wl.n : Count(p, wl.sent) = 1

====
